---------------------------- MODULE Spec2Model ----------------------------
(***************************************************************************)
(* A model of TOOLS/retag.py: entity discovery, the registry kept in       *)
(* ENT_DATAMEM with its CSV codec and merge, and the two tag injectors.    *)
(*                                                                         *)
(* A Python str is modelled as a sequence of one-character strings, so     *)
(* that searching, slicing, joining and splitting are computed character   *)
(* by character as the code computes them.  Offsets are Python's (from 0). *)
(* Python's None is the value None below, which is no character sequence.  *)
(***************************************************************************)
EXTENDS Integers, Sequences, FiniteSets, TLC

\* ------------------------------------------------------------------------
\* Characters and strings
\* ------------------------------------------------------------------------

None == <<"None">>

\* The printable ASCII characters (the backquote left out) in code-point order (str comparison).
CharOrder ==
  <<" ", "!", "\"", "#", "$", "%", "&", "'", "(", ")", "*", "+", ",", "-",
    ".", "/", "0", "1", "2", "3", "4", "5", "6", "7", "8", "9", ":", ";",
    "<", "=", ">", "?", "@", "A", "B", "C", "D", "E", "F", "G", "H", "I",
    "J", "K", "L", "M", "N", "O", "P", "Q", "R", "S", "T", "U", "V", "W",
    "X", "Y", "Z", "[", "\\", "]", "^", "_", "a", "b", "c", "d", "e",
    "f", "g", "h", "i", "j", "k", "l", "m", "n", "o", "p", "q", "r", "s",
    "t", "u", "v", "w", "x", "y", "z", "{", "|", "}", "~">>

Ord(c) == CHOOSE i \in 1..Len(CharOrder) : CharOrder[i] = c

Digits == <<"0", "1", "2", "3", "4", "5", "6", "7", "8", "9">>

\* \w of the re module: letters, digits and the underscore.
WordChars ==
  {"0", "1", "2", "3", "4", "5", "6", "7", "8", "9", "_",
   "A", "B", "C", "D", "E", "F", "G", "H", "I", "J", "K", "L", "M",
   "N", "O", "P", "Q", "R", "S", "T", "U", "V", "W", "X", "Y", "Z",
   "a", "b", "c", "d", "e", "f", "g", "h", "i", "j", "k", "l", "m",
   "n", "o", "p", "q", "r", "s", "t", "u", "v", "w", "x", "y", "z"}

IsWord(c) == c \in WordChars

\* The whitespace that str.strip removes, among the characters of the model.
IsSpace(c) == c \in {" ", "\n"}

\* body(v), with v computed once and named in body: the assignment of a
\* local variable.
Let(v, body(_)) == body(v)

\* y, once x has been computed: the value is y.  A loop of the code is a
\* recursive operator here, and each pass computes its value before the
\* next pass starts, as the code's assignment does.
Then(x, y) == IF x = x THEN y ELSE y

\* s[a:b] for 0 <= a, b (clamped to the string as Python clamps a slice).
Slice(s, a, b) == SubSeq(s, a + 1, IF b > Len(s) THEN Len(s) ELSE b)

\* s[p:].startswith(k), p from 0.
MatchAt(s, k, p) == p + Len(k) <= Len(s) /\ Slice(s, p, p + Len(k)) = k

\* The lowest i in lo..hi with P(i), or -1.
First(P(_), lo, hi) ==
  IF \E i \in lo..hi : P(i)
  THEN CHOOSE i \in lo..hi : P(i) /\ \A j \in lo..(i - 1) : ~P(j)
  ELSE -1

\* The highest i in lo..hi with P(i), or -1.
Last(P(_), lo, hi) ==
  IF \E i \in lo..hi : P(i)
  THEN CHOOSE i \in lo..hi : P(i) /\ \A j \in (i + 1)..hi : ~P(j)
  ELSE -1

\* str.find(k, start): the lowest offset >= start where k occurs, or -1.
Find(s, k, start) ==
  First(LAMBDA i : MatchAt(s, k, i), start, Len(s) - Len(k))

\* str.replace(old, new) for a non-empty old, scanning from offset p: the
\* occurrences are taken left to right and do not overlap.
RECURSIVE ReplaceFrom(_, _, _, _)
ReplaceFrom(s, old, new, p) ==
  Let(Find(s, old, p), LAMBDA i :
    IF i < 0 THEN Slice(s, p, Len(s))
    ELSE Slice(s, p, i) \o new \o ReplaceFrom(s, old, new, i + Len(old)))

StrReplace(s, old, new) == IF old = <<>> THEN s ELSE ReplaceFrom(s, old, new, 0)

\* str.strip(): leading and trailing whitespace removed.
Strip(s) ==
  Let(First(LAMBDA i : ~IsSpace(s[i]), 1, Len(s)), LAMBDA lo :
    IF lo < 0 THEN <<>>
    ELSE SubSeq(s, lo, Last(LAMBDA i : ~IsSpace(s[i]), 1, Len(s))))

\* str.split(sep) for a non-empty sep: the list of the parts.
RECURSIVE SplitFrom(_, _, _)
SplitFrom(s, sep, p) ==
  Let(Find(s, sep, p), LAMBDA i :
    IF i < 0 THEN <<Slice(s, p, Len(s))>>
    ELSE <<Slice(s, p, i)>> \o SplitFrom(s, sep, i + Len(sep)))

Split(s, sep) == SplitFrom(s, sep, 0)

\* sep.join(parts)
RECURSIVE Join(_, _)
Join(parts, sep) ==
  IF parts = <<>> THEN <<>>
  ELSE IF Len(parts) = 1 THEN parts[1]
  ELSE parts[1] \o sep \o Join(Tail(parts), sep)

\* str(n) for n >= 0.
RECURSIVE Str(_)
Str(n) == IF n < 10 THEN <<Digits[n + 1]>> ELSE Str(n \div 10) \o <<Digits[(n % 10) + 1]>>

\* a < b for two strings, as Python compares them: by the first character
\* in which they differ, a proper prefix being the smaller.
LexLess(a, b) ==
  Let(First(LAMBDA i : a[i] # b[i], 1,
            IF Len(a) < Len(b) THEN Len(a) ELSE Len(b)), LAMBDA d :
    IF d < 0 THEN Len(a) < Len(b) ELSE Ord(a[d]) < Ord(b[d]))

\* ------------------------------------------------------------------------
\* Entities and the registry
\* ------------------------------------------------------------------------

ENT_GEOG == <<"g", "e", "o", "g", "N", "a", "m", "e">>
ENT_PERS == <<"p", "e", "r", "s", "N", "a", "m", "e">>
ENT_PLACE == <<"p", "l", "a", "c", "e", "N", "a", "m", "e">>

\* The kinds with places before persons
ENT_TYPES_PlacesFirst == <<ENT_PLACE, ENT_PERS, ENT_GEOG>>

\* entity names are ordered: persons, then places, then geographic names
ENT_TYPES == <<ENT_PERS, ENT_PLACE, ENT_GEOG>>

\* The Entity named tuple.  variants and files are Python lists built with
\* list(set(...)) or read from a CSV row; no operation of the module depends
\* on their order or on repeated elements, so they are kept as sets.
Entity(kind, key, ref, geotype, variants, files) ==
  [kind |-> kind, key |-> key, ref |-> ref, geotype |-> geotype,
   variants |-> variants, files |-> files]

\* Python truth of a str-or-None value: None and '' are false.
Truthy(s) == s # None /\ s # <<>>

\* x in seq
InSeq(x, seq) == \E i \in 1..Len(seq) : seq[i] = x

\* An operation's outcome: err is "" on a normal return, else the name of
\* the exception raised; val is the value returned.
Ok(v) == [err |-> "", val |-> v]
Raise(e) == [err |-> e, val |-> <<>>]

\* ------------------------------------------------------------------------
\* Tag protection
\* ------------------------------------------------------------------------

\* "[[TAG" + ("0000000000" + str(idx))[-10:] + "]]" and the same with "[[ID"
Last10(s) == Slice(s, Len(s) - 10, Len(s))
TagMarker(idx) == <<"[", "[", "T", "A", "G">> \o Last10(<<"0", "0", "0", "0", "0", "0", "0", "0", "0", "0">> \o Str(idx)) \o <<"]", "]">>
IdMarker(id_no) == <<"[", "[", "I", "D">> \o Last10(<<"0", "0", "0", "0", "0", "0", "0", "0", "0", "0">> \o Str(id_no)) \o <<"]", "]">>

\* The end of the run of \w characters that starts at offset p.
WordEnd(txt, p) ==
  Let(First(LAMBDA i : ~IsWord(txt[i + 1]), p, Len(txt) - 1), LAMBDA e :
    IF e < 0 THEN Len(txt) ELSE e)

\* A match of tagre = \<\/?(\w+)[^\>]*\> that starts at offset p, as
\* [found, start, end, name].  After '<' and an optional '/', (\w+) takes
\* the longest run of word characters and [^>]* runs to the first '>'.
NoMatch == [found |-> FALSE, start |-> -1, end |-> -1, name |-> <<>>]

TagMatchAt(txt, p) ==
  IF ~(p < Len(txt) /\ txt[p + 1] = "<") THEN NoMatch
  ELSE Let(IF p + 1 < Len(txt) /\ txt[p + 2] = "/" THEN p + 2 ELSE p + 1,
           LAMBDA q :
       Let(WordEnd(txt, q), LAMBDA w :
       Let(Find(txt, <<">">>, w), LAMBDA gt :
         IF w = q \/ gt < 0 THEN NoMatch
         ELSE [found |-> TRUE, start |-> p, end |-> gt + 1,
               name |-> Slice(txt, q, w)])))

\* tagre.search(txt, start): the leftmost match at or after start
TagSearch(txt, start) ==
  Let(First(LAMBDA i : TagMatchAt(txt, i).found, start, Len(txt) - 1),
      LAMBDA p : IF p < 0 THEN NoMatch ELSE TagMatchAt(txt, p))

\* The while loop of _recodeXMLTags; tags[i] is the tag held by TagMarker(i).
RECURSIVE RecodeLoop(_, _, _, _, _)
RecodeLoop(txt, start, idx, tags, exclude) ==
  IF ~(start < Len(txt)) THEN [txt |-> txt, tags |-> tags]
  ELSE Let(TagSearch(txt, start), LAMBDA mo :
         IF ~mo.found THEN [txt |-> txt, tags |-> tags]
         ELSE IF ~InSeq(mo.name, exclude)
              THEN Let([txt |-> Slice(txt, 0, mo.start) \o TagMarker(idx + 1)
                                  \o Slice(txt, mo.end, Len(txt)),
                        tags |-> Append(tags, Slice(txt, mo.start, mo.end))],
                       LAMBDA r :
                     Then(r, RecodeLoop(r.txt, start + Len(TagMarker(idx + 1)),
                                        idx + 1, r.tags, exclude)))
              ELSE RecodeLoop(txt, mo.end, idx, tags, exclude))

recodeXMLTags(txt, exclude) == RecodeLoop(txt, 0, 0, <<>>, exclude)

\* ------------------------------------------------------------------------
\* Tag injection
\* ------------------------------------------------------------------------

\* _xmltag(e, v) of both injectors
xmltag(e, v) ==
  <<"<">> \o e.kind \o <<" ", "k", "e", "y", "=", "\"">> \o e.key \o <<"\"">>
    \o (IF Truthy(e.ref) THEN <<" ", "r", "e", "f", "=", "\"">> \o e.ref \o <<"\"">> ELSE <<>>)
    \o (IF Truthy(e.geotype) THEN <<" ", "t", "y", "p", "e", "=", "\"">> \o e.geotype \o <<"\"">> ELSE <<>>)
    \o <<">">> \o v \o <<"<", "/">> \o e.kind \o <<">">>

\* vardict: for e in ENT_DATAMEM: for x in e.variants: vardict[x] = e
\* (a later entity overwrites an earlier one that lists the same variant).
VarDictKeys(mem) == UNION {mem[i].variants : i \in 1..Len(mem)}
\* The owner if the first entity that lists a variant kept it
VarDictOwner_First(mem, x) ==
  CHOOSE i \in 1..Len(mem) :
    x \in mem[i].variants /\ \A j \in 1..(i - 1) : x \notin mem[j].variants

VarDictOwner(mem, x) ==
  CHOOSE i \in 1..Len(mem) :
    x \in mem[i].variants /\ \A j \in (i + 1)..Len(mem) : x \notin mem[j].variants
VarDict(mem) == [x \in VarDictKeys(mem) |-> mem[VarDictOwner(mem, x)]]

\* The value that JUP_generateVarKeys gives ENT_VARDICT: the same loops
JUP_generateVarKeys(mem) == VarDict(mem)

\* The sort key (-len(s), s)
KeyLess(a, b) == Len(a) > Len(b) \/ (Len(a) = Len(b) /\ LexLess(a, b))

\* sorted(keys, key=lambda s: (-len(s), s))
RECURSIVE SortedKeys(_)
SortedKeys(keys) ==
  IF keys = {} THEN <<>>
  ELSE Let(CHOOSE a \in keys : \A b \in keys \ {a} : KeyLess(a, b),
           LAMBDA least : <<least>> \o SortedKeys(keys \ {least}))

\* A match of \<t[^>]*> at offset p: the offset after its '>', or -1.
OpenEnd(tail, t, p) ==
  IF MatchAt(tail, <<"<">> \o t, p)
  THEN Let(Find(tail, <<">">>, p + 1 + Len(t)), LAMBDA gt :
         IF gt < 0 THEN -1 ELSE gt + 1)
  ELSE -1

\* expr.sub("", tail) for expr = \<t[^>]*>, scanning from offset p
RECURSIVE StripOpen(_, _, _)
StripOpen(tail, t, p) ==
  Let(First(LAMBDA i : OpenEnd(tail, t, i) >= 0, p, Len(tail) - 1), LAMBDA i :
    IF i < 0 THEN Slice(tail, p, Len(tail))
    ELSE Slice(tail, p, i) \o StripOpen(tail, t, OpenEnd(tail, t, i)))

\* for t in ent_types: the start tags, then the end tags, of t are removed
RECURSIVE StripTypes(_, _)
StripTypes(tail, types) ==
  IF types = <<>> THEN tail
  ELSE Let(StrReplace(StripOpen(tail, Head(types), 0),
                      <<"<", "/">> \o Head(types) \o <<">">>, <<>>),
           LAMBDA tail2 : Then(tail2, StripTypes(tail2, Tail(types))))

\* A match of subre = (\W)(k)(\W) at offset p: a non-word character, the
\* variant, a non-word character.
BoundedAt(tail, k, p) ==
  /\ p + Len(k) + 2 <= Len(tail)
  /\ ~IsWord(tail[p + 1])
  /\ MatchAt(tail, k, p + 1)
  /\ ~IsWord(tail[p + Len(k) + 2])

\* subre.sub('\\1' + id_marker + '\\3', tail), scanning from offset p: the
\* matches are taken left to right, and a match takes both neighbouring
\* characters with it, so the next match starts after them.
RECURSIVE SubVariant(_, _, _, _)
SubVariant(tail, k, id_marker, p) ==
  Let(First(LAMBDA i : BoundedAt(tail, k, i), p, Len(tail) - 1), LAMBDA i :
    IF i < 0 THEN Slice(tail, p, Len(tail))
    ELSE Slice(tail, p, i + 1) \o id_marker
           \o <<tail[i + Len(k) + 2]>>
           \o SubVariant(tail, k, id_marker, i + Len(k) + 2))

\* for k in sorted_keys (replace mode): one marker per key, used or not
RECURSIVE ReplaceKeys(_, _, _, _)
ReplaceKeys(tail, sorted_keys, id_no, vardict) ==
  IF id_no >= Len(sorted_keys) THEN tail
  ELSE Let(SubVariant(tail, sorted_keys[id_no + 1], IdMarker(id_no + 1), 0),
           LAMBDA tail2 :
         Then(tail2, ReplaceKeys(tail2, sorted_keys, id_no + 1, vardict)))

\* for x in id_subs: tail = tail.replace(x, id_subs[x]), in insertion order
RECURSIVE ResolveIds(_, _, _, _)
ResolveIds(tail, sorted_keys, vardict, n) ==
  IF n > Len(sorted_keys) THEN tail
  ELSE Let(StrReplace(tail, IdMarker(n),
                      xmltag(vardict[sorted_keys[n]], sorted_keys[n])),
           LAMBDA tail2 :
         Then(tail2, ResolveIds(tail2, sorted_keys, vardict, n + 1)))

\* for x in id_tags: tail = tail.replace(x, id_tags[x]), in insertion order
RECURSIVE ResolveTags(_, _, _)
ResolveTags(tail, id_tags, n) ==
  IF n > Len(id_tags) THEN tail
  ELSE Let(StrReplace(tail, TagMarker(n), id_tags[n]), LAMBDA tail2 :
         Then(tail2, ResolveTags(tail2, id_tags, n + 1)))

TEXT_OPEN == <<"<", "t", "e", "x", "t", ">">>

\* An output from which the head is left out
Reassemble_Headless(head, tail) == TEXT_OPEN \o tail

\* return head + "<text>" + tail
Reassemble(head, tail) == head \o TEXT_OPEN \o tail

\* head, tail = xml.split('<text>') raises ValueError unless there are
\* exactly two parts.
JUP_replaceEntitiesXML(xml, mem, ent_types) ==
  Let(Split(xml, TEXT_OPEN), LAMBDA parts :
    IF Len(parts) # 2 THEN Raise("ValueError")
    ELSE Let(recodeXMLTags(parts[2], ent_types), LAMBDA rec :
         Let(VarDict(mem), LAMBDA vardict :
         Let(SortedKeys(DOMAIN vardict), LAMBDA sorted_keys :
           Ok(Reassemble(parts[1],
                ResolveTags(
                  ResolveIds(
                    ReplaceKeys(StripTypes(rec.txt, ent_types),
                                sorted_keys, 0, vardict),
                    sorted_keys, vardict, 1),
                  rec.tags, 1)))))))

\* s[a:b] where a and b may be negative (counted from the end).
PySlice(s, a, b) ==
  LET norm(i) == IF i < 0 THEN (IF i + Len(s) < 0 THEN 0 ELSE i + Len(s)) ELSE i
  IN  Slice(s, norm(a), norm(b))

\* txt[i] for an offset that may be negative (counted from the end);
\* <<>> stands for the IndexError of an offset outside the string.
PyAt(txt, i) ==
  LET j == IF i < 0 THEN i + Len(txt) ELSE i
  IN  IF j < 0 \/ j >= Len(txt) THEN <<>> ELSE <<txt[j + 1]>>

\* _we_are_inside_tag(txt, idx): step back from idx to the first '<' or
\* '>' (or to offset 0); False only when that character is '>'.
StepBack(txt, idx) ==
  Let(Last(LAMBDA i : txt[i + 1] \in {"<", ">"}, 1, idx), LAMBDA i :
    IF i < 0 THEN 0 ELSE i)

we_are_inside_tag(txt, idx) == txt[StepBack(txt, idx) + 1] # ">"

\* The condition under which an occurrence at offset i is replaced.  The
\* slice tail[i - 2:i - 1] holds at most one character and is compared
\* with the two characters '="'.
AcceptOccurrence(tail, k, i) ==
  /\ PyAt(tail, i - 1) # <<">">>
  /\ PyAt(tail, i + Len(k)) # <<"<">>
  /\ PySlice(tail, i - 2, i - 1) # <<"=", "\"">>
  /\ ~we_are_inside_tag(tail, i)

\* The inner while loop of JUP_addEntitiesXML for one key k.  tail[i - 1]
\* is read first; tail[i + len(k)] is read only if that character is not
\* '>', and raises IndexError when the occurrence ends the string.
RECURSIVE AddLoop(_, _, _, _)
AddLoop(tail, k, id_marker, start) ==
  IF ~(start < Len(tail)) THEN Ok(tail)
  ELSE Let(Find(tail, k, start), LAMBDA i :
         IF ~(i >= start) THEN Ok(tail)
         ELSE IF PyAt(tail, i - 1) # <<">">> /\ PyAt(tail, i + Len(k)) = <<>>
              THEN Raise("IndexError")
         ELSE IF AcceptOccurrence(tail, k, i)
              THEN Let(Slice(tail, 0, i) \o id_marker
                         \o Slice(tail, i + Len(k), Len(tail)),
                       LAMBDA tail2 :
                     Then(tail2,
                          AddLoop(tail2, k, id_marker, i + Len(id_marker))))
              ELSE AddLoop(tail, k, id_marker, i + Len(k)))

\* The string <kind>k</kind> for the entity e that owns k
BareWrap(e, k) ==
  <<"<">> \o e.kind \o <<">">> \o k \o <<"<", "/">> \o e.kind \o <<">">>

\* for k in sorted_keys (add mode): the exact bare wrap <kind>k</kind> is
\* replaced first, then the occurrences the inner loop accepts.
RECURSIVE AddKeys(_, _, _, _)
AddKeys(tail, sorted_keys, id_no, vardict) ==
  IF id_no >= Len(sorted_keys) THEN Ok(tail)
  ELSE Let(AddLoop(StrReplace(tail,
                              BareWrap(vardict[sorted_keys[id_no + 1]],
                                       sorted_keys[id_no + 1]),
                              IdMarker(id_no + 1)),
                   sorted_keys[id_no + 1], IdMarker(id_no + 1), 0),
           LAMBDA r :
         IF r.err # "" THEN r
         ELSE AddKeys(r.val, sorted_keys, id_no + 1, vardict))

JUP_addEntitiesXML(xml, mem, ent_types) ==
  Let(Split(xml, TEXT_OPEN), LAMBDA parts :
    IF Len(parts) # 2 THEN Raise("ValueError")
    ELSE Let(recodeXMLTags(parts[2], ent_types), LAMBDA rec :
         Let(VarDict(mem), LAMBDA vardict :
         Let(SortedKeys(DOMAIN vardict), LAMBDA sorted_keys :
         Let(AddKeys(rec.txt, sorted_keys, 0, vardict), LAMBDA subst :
           IF subst.err # "" THEN subst
           ELSE Ok(Reassemble(parts[1],
                     ResolveTags(
                       ResolveIds(subst.val, sorted_keys, vardict, 1),
                       rec.tags, 1))))))))

\* ------------------------------------------------------------------------
\* Entity discovery
\* ------------------------------------------------------------------------

\* A document as discover_entities sees it after xml_ET.fromstring:
\* wellformed is FALSE when the parser raises ParseError, texts is the
\* number of tei:text children of the root, and nodes are the elements
\* below the text section in document order, each with its tag, its key,
\* ref and type attributes (None when absent) and its inner text
\* ("".join(node.itertext())).
Node(tag, key, ref, type, text) ==
  [tag |-> tag, key |-> key, ref |-> ref, type |-> type, text |-> text]

Document(wellformed, texts, nodes) ==
  [wellformed |-> wellformed, texts |-> texts, nodes |-> nodes]

\* _flatten_TEI_innertext(node)
flatten_TEI_innertext(node) == Strip(node.text)

\* '[[UNKNOWN:%s]]' % variant
UnknownKey(variant) == <<"[", "[", "U", "N", "K", "N", "O", "W", "N", ":">> \o variant \o <<"]", "]">>

\* The dictionaries of discover_entities.  A dict is a function on its
\* keys; order lists the keys of ent_variants in insertion order, which is
\* the order of the entities returned; keys lists, for each node processed,
\* the key it was filed under.
NoDicts ==
  [ent_ref |-> <<>>, ent_types |-> <<>>, ent_geotypes |-> <<>>,
   ent_variants |-> <<>>, ent_files |-> <<>>, ent_vardict |-> <<>>,
   order |-> <<>>, keys |-> <<>>]

\* d[k] = v
Put(d, k, v) == [x \in DOMAIN d \cup {k} |-> IF x = k THEN v ELSE d[x]]

\* A seed that leaves the ref out, as the code leaves the geotype out
SeedRef_LeftOut(d, x) == d.ent_ref

\* ent_ref[x.key] = x.ref
SeedRef(d, x) == Put(d.ent_ref, x.key, x.ref)

\* ent_vardict after seeding x
SeedVardict(vardict, x) ==
  [v \in DOMAIN vardict \cup {x.key} \cup x.variants |->
     IF v \in DOMAIN vardict THEN vardict[v] ELSE x.key]

\* One pass of "for x in merge_from": the entity's kind, ref, variants and
\* files are taken over under its key, and its key and variants are entered
\* in ent_vardict unless already there.  ent_geotypes is not seeded.
SeedEntity(d, x) ==
  [d EXCEPT !.ent_types = Put(d.ent_types, x.key, x.kind),
            !.ent_ref = SeedRef(d, x),
            !.ent_variants = Put(d.ent_variants, x.key, x.variants),
            !.ent_files = Put(d.ent_files, x.key, x.files),
            !.ent_vardict = SeedVardict(d.ent_vardict, x),
            !.order = IF x.key \in DOMAIN d.ent_variants THEN d.order
                      ELSE Append(d.order, x.key)]

RECURSIVE Seed(_, _, _)
Seed(d, merge_from, n) ==
  IF n > Len(merge_from) THEN d
  ELSE Let(SeedEntity(d, merge_from[n]), LAMBDA d2 :
         Then(d2, Seed(d2, merge_from, n + 1)))

\* attribute value a, stripped when it is a non-empty string
StripAttr(a) == IF Truthy(a) THEN Strip(a) ELSE a

\* The key a node is filed under: its own key attribute when that is not
\* empty after strip, else the key ent_vardict holds for its text, else the
\* placeholder built from its text.
ResolveKey(vardict, key, variant) ==
  IF Truthy(key) THEN key
  ELSE IF variant \in DOMAIN vardict THEN vardict[variant]
  ELSE UnknownKey(variant)

\* ent_files after a node filed under key
NodeFiles(ent_files, key, filename) ==
  IF key \notin DOMAIN ent_files
  THEN Put(ent_files, key, IF Truthy(filename) THEN {filename} ELSE {})
  ELSE Put(ent_files, key, ent_files[key] \cup {filename})

\* ent_ref after a node filed under key that carries ref
NodeRef(ent_ref, key, ref) ==
  IF Truthy(ref) /\ key \notin DOMAIN ent_ref THEN Put(ent_ref, key, ref)
  ELSE ent_ref

\* ent_geotypes after a node filed under key that carries type
NodeGeotype(ent_geotypes, key, geotype) ==
  IF Truthy(geotype) /\ key \notin DOMAIN ent_geotypes
  THEN Put(ent_geotypes, key, geotype)
  ELSE ent_geotypes

\* A working map that records the text itself where the code records the key
NodeVardict_TextForKey(vardict, variant, key) == Put(vardict, variant, variant)

\* ent_vardict after a node with text variant filed under key
NodeVardict(vardict, variant, key) == Put(vardict, variant, key)

\* Variants that start afresh at each mention of the key
NodeVariants_Afresh(ent_variants, key, variant) ==
  Put(ent_variants, key, {key} \cup (IF variant # <<>> THEN {variant} ELSE {}))

\* ent_variants after a node with text variant filed under key
NodeVariants(ent_variants, key, variant) ==
  Put(ent_variants, key,
      (IF key \in DOMAIN ent_variants THEN ent_variants[key] ELSE {key})
        \cup (IF variant # <<>> THEN {variant} ELSE {}))

\* The body of "for x in entities" for one node x of kind ent_type
ProcessNode(d, ent_type, x, filename) ==
  Let(StripAttr(x.key), LAMBDA own :
  Let(flatten_TEI_innertext(x), LAMBDA variant :
  Let(ResolveKey(d.ent_vardict, own, variant), LAMBDA key :
    [ent_types |-> IF key \in DOMAIN d.ent_types THEN d.ent_types
                   ELSE Put(d.ent_types, key, ent_type),
     ent_variants |-> NodeVariants(d.ent_variants, key, variant),
     ent_files |-> NodeFiles(d.ent_files, key, filename),
     ent_ref |-> NodeRef(d.ent_ref, key, StripAttr(x.ref)),
     ent_geotypes |-> NodeGeotype(d.ent_geotypes, key, StripAttr(x.type)),
     ent_vardict |-> NodeVardict(d.ent_vardict, variant, key),
     order |-> IF key \in DOMAIN d.ent_variants THEN d.order
               ELSE Append(d.order, key),
     keys |-> Append(d.keys,
                     [kind |-> ent_type, keyed |-> Truthy(own),
                      known |-> variant \in DOMAIN d.ent_vardict,
                      variant |-> variant, key |-> key])])))

\* _find_TEI_listnodes(ent_type, text) and the loop over it, from node n on
RECURSIVE ScanNodes(_, _, _, _, _)
ScanNodes(d, ent_type, nodes, filename, n) ==
  IF n > Len(nodes) THEN d
  ELSE IF nodes[n].tag # ent_type THEN ScanNodes(d, ent_type, nodes, filename, n + 1)
  ELSE Let(ProcessNode(d, ent_type, nodes[n], filename), LAMBDA d2 :
         Then(d2, ScanNodes(d2, ent_type, nodes, filename, n + 1)))

\* for ent_type in ENT_TYPES
RECURSIVE ScanTypes(_, _, _, _)
ScanTypes(d, types, nodes, filename) ==
  IF types = <<>> THEN d
  ELSE Let(ScanNodes(d, Head(types), nodes, filename, 1), LAMBDA d2 :
         Then(d2, ScanTypes(d2, Tail(types), nodes, filename)))

\* The entity built for key x from the dictionaries
BuildEntity(d, x) ==
  Entity(d.ent_types[x], x,
         IF x \in DOMAIN d.ent_ref THEN d.ent_ref[x] ELSE None,
         IF x \in DOMAIN d.ent_geotypes THEN d.ent_geotypes[x] ELSE None,
         d.ent_variants[x], d.ent_files[x])

\* The dictionaries at the end of discover_entities
Discovered(xml, merge_from, filename) ==
  ScanTypes(Seed(NoDicts, merge_from, 1), ENT_TYPES, xml.nodes, filename)

discover_entities(xml, merge_from, filename) ==
  IF ~xml.wellformed THEN Raise("ParseError")
  ELSE IF xml.texts # 1 THEN Raise("TEIStructureError")
  ELSE Let(Discovered(xml, merge_from, filename), LAMBDA d :
         Ok([n \in 1..Len(d.order) |-> BuildEntity(d, d.order[n])]))

\* ------------------------------------------------------------------------
\* The registry file: JUP_writeCSV and JUP_readCSV
\* ------------------------------------------------------------------------

\* A set of strings as a list.  The code iterates a list(set(...)), whose
\* order is arbitrary; the list is joined with '|' and split at '|' again,
\* and the reader keeps the parts as a collection, so a fixed order is used.
SetToList(S) == SortedKeys(S)

\* [x.strip() for x in l if x.strip()]
RECURSIVE StripNonEmpty(_)
StripNonEmpty(l) ==
  IF l = <<>> THEN <<>>
  ELSE Let(Strip(Head(l)), LAMBDA x :
         IF x # <<>> THEN <<x>> \o StripNonEmpty(Tail(l))
         ELSE StripNonEmpty(Tail(l)))

\* '|'.join([x.strip() for x in l if x.strip()])
JoinStripped(l) == Join(StripNonEmpty(SetToList(l)), <<"|">>)

\* _Entity_toString(e): FMT = '"%s";%s;%s;%s;"%s";"%s"'.  Only the key, the
\* variants and the files are put between quotes.  x.strip() raises
\* AttributeError for a None among the files.
Entity_toString(e) ==
  IF None \in e.variants \/ None \in e.files THEN Raise("AttributeError")
  ELSE Ok(<<"\"">> \o Strip(e.key) \o <<"\"", ";">> \o Strip(e.kind)
            \o <<";">> \o (IF e.ref = None THEN <<>> ELSE Strip(e.ref))
            \o <<";">> \o (IF e.geotype = None THEN <<>> ELSE Strip(e.geotype))
            \o <<";", "\"">> \o JoinStripped(e.variants)
            \o <<"\"", ";", "\"">> \o JoinStripped(e.files) \o <<"\"">>)

CSV_HEADER == <<"K", "E", "Y", ";", "T", "Y", "P", "E", ";", "R", "E", "F", ";", "G", "E", "O", "T", "Y", "P", "E", ";", "V", "A", "R", "I", "A", "N", "T", "S", ";", "F", "I", "L", "E", "S">>

\* JUP_writeCSV: the header, then one line per entity.  The file is opened
\* for writing first, so what was written before an exception stays in it.
\* The value is [err, val] with val the content of the file.
RECURSIVE WriteRows(_, _, _)
WriteRows(mem, n, content) ==
  IF n > Len(mem) THEN Ok(content)
  ELSE Let(Entity_toString(mem[n]), LAMBDA row :
         IF row.err # "" THEN [err |-> row.err, val |-> content]
         ELSE WriteRows(mem, n + 1, content \o row.val \o <<"\n">>))

JUP_writeCSV(mem) == WriteRows(mem, 1, CSV_HEADER \o <<"\n">>)

\* --- the csv module's reader (delimiter ';', quotechar '"', doublequote,
\* not strict), one field at a time.  A field is [val, next, eor]: its
\* text, the offset after its terminator, and whether it ends the record.

\* A field not (or no longer) between quotes, read from offset p on: it
\* runs to the next delimiter or line end; a quote in it is a character.
UnquotedField(s, p, acc) ==
  Let(First(LAMBDA i : s[i + 1] \in {";", "\n"}, p, Len(s) - 1), LAMBDA j :
    IF j < 0 THEN [val |-> acc \o Slice(s, p, Len(s)), next |-> Len(s), eor |-> TRUE]
    ELSE [val |-> acc \o Slice(s, p, j), next |-> j + 1, eor |-> s[j + 1] = "\n"])

\* A field between quotes, read from offset p on (after the opening quote):
\* delimiters and line ends are characters of it; a doubled quote is one
\* quote; after the closing quote a delimiter or line end ends the field,
\* and any other character continues it as an unquoted field.
RECURSIVE QuotedField(_, _, _)
QuotedField(s, p, acc) ==
  Let(Find(s, <<"\"">>, p), LAMBDA j :
    IF j < 0 THEN [val |-> acc \o Slice(s, p, Len(s)), next |-> Len(s), eor |-> TRUE]
    ELSE Let(acc \o Slice(s, p, j), LAMBDA acc2 :
           IF j + 1 >= Len(s) THEN [val |-> acc2, next |-> Len(s), eor |-> TRUE]
           ELSE IF s[j + 2] = "\"" THEN QuotedField(s, j + 2, acc2 \o <<"\"">>)
           ELSE IF s[j + 2] = ";" THEN [val |-> acc2, next |-> j + 2, eor |-> FALSE]
           ELSE IF s[j + 2] = "\n" THEN [val |-> acc2, next |-> j + 2, eor |-> TRUE]
           ELSE UnquotedField(s, j + 2, acc2 \o <<s[j + 2]>>)))

ParseField(s, p) ==
  IF p >= Len(s) THEN [val |-> <<>>, next |-> Len(s), eor |-> TRUE]
  ELSE IF s[p + 1] = "\"" THEN QuotedField(s, p + 1, <<>>)
  ELSE UnquotedField(s, p, <<>>)

\* One record from offset p on: [fields, next]
RECURSIVE ParseRecord(_, _, _)
ParseRecord(s, p, fields) ==
  Let(ParseField(s, p), LAMBDA f :
    IF f.eor THEN [fields |-> Append(fields, f.val), next |-> f.next]
    ELSE ParseRecord(s, f.next, Append(fields, f.val)))

\* All the records of the file; an empty line is the record <<>>.
RECURSIVE ParseRecords(_, _)
ParseRecords(s, p) ==
  IF p >= Len(s) THEN <<>>
  ELSE IF s[p + 1] = "\n" THEN <<<<>>>> \o ParseRecords(s, p + 1)
  ELSE Let(ParseRecord(s, p, <<>>), LAMBDA r :
         <<r.fields>> \o ParseRecords(s, r.next))

\* The column of the header's field name, or -1
Column(fieldnames, name) ==
  Last(LAMBDA i : fieldnames[i] = name, 1, Len(fieldnames))

\* row[name] of csv.DictReader for a name of the header: the field under
\* it, None (restval) when the row is too short.
RowGet(fieldnames, row, name) ==
  Let(Column(fieldnames, name), LAMBDA c :
    IF c > Len(row) THEN None ELSE row[c])

COL_KEY == <<"K", "E", "Y">>
COL_TYPE == <<"T", "Y", "P", "E">>
COL_REF == <<"R", "E", "F">>
COL_GEOTYPE == <<"G", "E", "O", "T", "Y", "P", "E">>
COL_VARIANTS == <<"V", "A", "R", "I", "A", "N", "T", "S">>
COL_FILES == <<"F", "I", "L", "E", "S">>

\* _filter_nonEmpty(iterable), kept as the set of its elements
filter_nonEmpty(l) == {l[i] : i \in 1..Len(l)} \ {<<>>}

\* s.strip() if s.strip() else None
StripOrNone(s) == Let(Strip(s), LAMBDA x : IF x # <<>> THEN x ELSE None)

\* The Entity built from one row: a name that the header lacks raises
\* KeyError, and .strip() of a missing field (None) raises AttributeError.
COLUMNS == <<COL_KEY, COL_TYPE, COL_REF, COL_GEOTYPE, COL_VARIANTS, COL_FILES>>

RowEntity(fieldnames, row) ==
  IF \E n \in 1..6 : Column(fieldnames, COLUMNS[n]) < 0 THEN Raise("KeyError")
  ELSE Let([n \in 1..6 |-> RowGet(fieldnames, row, COLUMNS[n])], LAMBDA get :
         IF \E n \in 1..6 : get[n] = None THEN Raise("AttributeError")
         ELSE Ok(Entity(Strip(get[2]), Strip(get[1]),
                        StripOrNone(get[3]), StripOrNone(get[4]),
                        filter_nonEmpty(Split(Strip(get[5]), <<"|">>)),
                        filter_nonEmpty(Split(Strip(get[6]), <<"|">>)))))

\* for row in reader: li.append(Entity(...)); empty records are skipped
RECURSIVE ReadRows(_, _, _, _)
ReadRows(fieldnames, records, n, li) ==
  IF n > Len(records) THEN Ok(li)
  ELSE IF records[n] = <<>> THEN ReadRows(fieldnames, records, n + 1, li)
  ELSE Let(RowEntity(fieldnames, records[n]), LAMBDA e :
         IF e.err # "" THEN Raise(e.err)
         ELSE ReadRows(fieldnames, records, n + 1, Append(li, e.val)))

\* The list li that JUP_readCSV builds from the file
ReadEntities(content) ==
  Let(ParseRecords(content, 0), LAMBDA records :
    IF records = <<>> THEN Ok(<<>>)
    ELSE ReadRows(records[1], records, 2, <<>>))

\* --- the merge of JUP_readCSV.  The dict di is a list of [k, e] in
\* insertion order.  A key of it is a Python value: the tuple
\* (kind, key), or a plain string; the two are never equal.
TupleKey(kind, key) == [tuple |-> TRUE, kind |-> kind, key |-> key]
StrKey(key) == [tuple |-> FALSE, kind |-> <<>>, key |-> key]

\* k in di
DiHas(di, k) == \E i \in 1..Len(di) : di[i].k = k

\* di[k] = e
DiPut(di, k, e) ==
  IF DiHas(di, k)
  THEN [i \in 1..Len(di) |-> IF di[i].k = k THEN [k |-> k, e |-> e] ELSE di[i]]
  ELSE Append(di, [k |-> k, e |-> e])

\* di[k], for a k in di
DiGet(di, k) == (CHOOSE i \in 1..Len(di) : di[i].k = k)

\* The key under which the merge looks an already known entity up and
\* stores the merged one: di[x.key]
MergeLookupKey(x) == StrKey(x.key)

\* for e in ENT_DATAMEM: di[(e.kind, e.key)] = e
RECURSIVE DiFromMem(_, _, _)
DiFromMem(mem, n, di) ==
  IF n > Len(mem) THEN di
  ELSE DiFromMem(mem, n + 1, DiPut(di, TupleKey(mem[n].kind, mem[n].key), mem[n]))

\* The merged entity for x and the entity a already known
MergedEntity(a, x) ==
  Entity(x.kind, x.key,
         IF ~Truthy(a.ref) /\ Truthy(x.ref) THEN x.ref ELSE a.ref,
         IF ~Truthy(a.geotype) /\ Truthy(x.geotype) THEN x.geotype ELSE a.geotype,
         a.variants \cup x.variants, a.files \cup x.files)

\* for x in li: ...; a lookup of a key that di does not hold raises KeyError
RECURSIVE MergeLoop(_, _, _)
MergeLoop(di, li, n) ==
  IF n > Len(li) THEN Ok(di)
  ELSE IF DiHas(di, TupleKey(li[n].kind, li[n].key))
       THEN IF ~DiHas(di, MergeLookupKey(li[n])) THEN Raise("KeyError")
            ELSE MergeLoop(
                   DiPut(di, MergeLookupKey(li[n]),
                         MergedEntity(di[DiGet(di, MergeLookupKey(li[n]))].e,
                                      li[n])),
                   li, n + 1)
       ELSE MergeLoop(DiPut(di, TupleKey(li[n].kind, li[n].key), li[n]),
                      li, n + 1)

\* JUP_readCSV(fname, merge) on a file with the given content (None: there
\* is no file) and the registry mem: the new ENT_DATAMEM, or the exception.
JUP_readCSV(content, mem, merge) ==
  IF content = None THEN Raise("FileNotFoundError")
  ELSE Let(ReadEntities(content), LAMBDA li :
         IF li.err # "" THEN li
         ELSE IF ~merge THEN Ok(li.val)
         ELSE Let(MergeLoop(DiFromMem(mem, 1, <<>>), li.val, 1), LAMBDA di :
                IF di.err # "" THEN di
                ELSE Ok([i \in 1..Len(di.val) |-> di.val[i].e])))

\* ------------------------------------------------------------------------
\* Directory runs: JUP_gatherFromXMLDir, JUP_replaceEntitiesXMLDir and
\* JUP_addEntitiesXMLDir
\* ------------------------------------------------------------------------

\* A file of a directory: its name, its content as the injectors read it
\* (a string), and its content as discover_entities sees it once parsed.
DirFile(fname, text, doc) == [fname |-> fname, text |-> text, doc |-> doc]

UpperCase ==
  <<"A", "B", "C", "D", "E", "F", "G", "H", "I", "J", "K", "L", "M", "N",
    "O", "P", "Q", "R", "S", "T", "U", "V", "W", "X", "Y", "Z">>

LowerCase ==
  <<"a", "b", "c", "d", "e", "f", "g", "h", "i", "j", "k", "l", "m", "n",
    "o", "p", "q", "r", "s", "t", "u", "v", "w", "x", "y", "z">>

\* str.lower()
Lower(s) ==
  [i \in 1..Len(s) |->
     IF \E n \in 1..Len(UpperCase) : UpperCase[n] = s[i]
     THEN LowerCase[CHOOSE n \in 1..Len(UpperCase) : UpperCase[n] = s[i]]
     ELSE s[i]]

\* str.endswith(t)
EndsWith(s, t) ==
  Len(s) >= Len(t) /\ SubSeq(s, Len(s) - Len(t) + 1, Len(s)) = t

\* x.lower().endswith(".xml")
IsXmlName(x) == EndsWith(Lower(x), <<".", "x", "m", "l">>)

\* The outcome of a directory run: the exception that ended it ("" if it
\* returned), the value it leaves behind, and the names of the files the
\* operation was called on.
DirOutcome(e, val, tried) == [err |-> e, val |-> val, tried |-> tried]

\* The loop of JUP_gatherFromXMLDir from file n on.  Only ParseError is
\* caught; any other exception of discover_entities ends the run, and
\* ENT_DATAMEM keeps what the files before have given.
RECURSIVE GatherDirLoop(_, _, _, _)
GatherDirLoop(files, mem, tried, n) ==
  IF n > Len(files) THEN DirOutcome("", mem, tried)
  ELSE IF ~IsXmlName(files[n].fname)
       THEN GatherDirLoop(files, mem, tried, n + 1)
  ELSE Let(discover_entities(files[n].doc, mem, files[n].fname), LAMBDA r :
         IF r.err = ""
         THEN GatherDirLoop(files, r.val, tried \cup {files[n].fname}, n + 1)
         ELSE IF r.err = "ParseError"
         THEN GatherDirLoop(files, mem, tried \cup {files[n].fname}, n + 1)
         ELSE DirOutcome(r.err, mem, tried \cup {files[n].fname}))

JUP_gatherFromXMLDir(files, mem) == GatherDirLoop(files, mem, {}, 1)

\* JUP_replaceEntitiesXMLFile(fname, destfname): the file is read and the
\* result of JUP_replaceEntitiesXML is what is written to destfname.
JUP_replaceEntitiesXMLFile(f, mem, ent_types) ==
  JUP_replaceEntitiesXML(f.text, mem, ent_types)

\* JUP_addEntitiesXMLFile(fname, destfname)
JUP_addEntitiesXMLFile(f, mem, ent_types) ==
  JUP_addEntitiesXML(f.text, mem, ent_types)

\* The loop of JUP_replaceEntitiesXMLDir from file n on.  destdir maps the
\* names of the files written to their content.  No exception is caught.
RECURSIVE ReplaceDirLoop(_, _, _, _, _)
ReplaceDirLoop(files, mem, destdir, tried, n) ==
  IF n > Len(files) THEN DirOutcome("", destdir, tried)
  ELSE IF ~IsXmlName(files[n].fname)
       THEN ReplaceDirLoop(files, mem, destdir, tried, n + 1)
  ELSE Let(JUP_replaceEntitiesXMLFile(files[n], mem, ENT_TYPES), LAMBDA r :
         IF r.err = ""
         THEN ReplaceDirLoop(files, mem, Put(destdir, files[n].fname, r.val),
                             tried \cup {files[n].fname}, n + 1)
         ELSE DirOutcome(r.err, destdir, tried \cup {files[n].fname}))

JUP_replaceEntitiesXMLDir(files, mem) ==
  ReplaceDirLoop(files, mem, <<>>, {}, 1)

\* The loop of JUP_addEntitiesXMLDir from file n on
RECURSIVE AddDirLoop(_, _, _, _, _)
AddDirLoop(files, mem, destdir, tried, n) ==
  IF n > Len(files) THEN DirOutcome("", destdir, tried)
  ELSE IF ~IsXmlName(files[n].fname)
       THEN AddDirLoop(files, mem, destdir, tried, n + 1)
  ELSE Let(JUP_addEntitiesXMLFile(files[n], mem, ENT_TYPES), LAMBDA r :
         IF r.err = ""
         THEN AddDirLoop(files, mem, Put(destdir, files[n].fname, r.val),
                         tried \cup {files[n].fname}, n + 1)
         ELSE DirOutcome(r.err, destdir, tried \cup {files[n].fname}))

JUP_addEntitiesXMLDir(files, mem) == AddDirLoop(files, mem, <<>>, {}, 1)

\* ------------------------------------------------------------------------
\* State
\* ------------------------------------------------------------------------

VARIABLES
  ENT_DATAMEM,  \* the registry: the list of the entities
  csvfile,      \* the content of the registry file, None while there is none
  ENT_VARDICT,  \* the map from each variant to its entity
  datafile,     \* ENT_DATAFILE: whether it exists, and the registry in it
  op,           \* the operation that ran last
  err,          \* the exception it raised, "" if it returned
  nops,         \* how many operations have run
  prev,         \* ENT_DATAMEM when the last operation started
  arg,          \* the argument of the last operation
  xml,          \* the document handed to an injector
  docs,         \* the documents handed to discover_entities
  regs,         \* the registries handed to the codec and the merge
  done,         \* the calls made so far in a run of fixed calls
  first,        \* the outcome of the first call of such a run
  second,       \* the outcome of the second call
  third,        \* the outcome of the third call
  trace         \* the key each node was filed under in the last pass

vars == <<ENT_DATAMEM, csvfile, ENT_VARDICT, datafile, op, err, nops, prev,
          arg, xml, docs, regs, done, first, second, third, trace>>

\* The value of a variable that a run does not use
Unused == <<>>

\* The data file: none, and one that holds the registry mem
NoDataFile == [exists |-> FALSE, mem |-> <<>>]
DataFile(mem) == [exists |-> TRUE, mem |-> mem]

\* The outcome of a call not made yet
NotRun == [err |-> "not run", val |-> <<>>]

\* ------------------------------------------------------------------------
\* The registry's life: discovery into ENT_DATAMEM, save, load, merge
\* ------------------------------------------------------------------------

MaxOps == 4

S_K == <<"K">>
S_P == <<"P">>
S_x == <<"x">>
S_y == <<"y">>
S_r1 == <<"r", "1">>
S_r2 == <<"r", "2">>
S_York == <<"Y", "o", "r", "k">>
S_city == <<"c", "i", "t", "y">>
S_bar == <<"a", "|", "b">>
S_f1 == <<"f", "1">>
S_f2 == <<"f", "2">>
S_f3 == <<"f", "3">>
S_f4 == <<"f", "4">>
S_f5 == <<"f", "5">>
S_f6 == <<"f", "6">>

\* The documents of the directory, each under its file name
GatherFiles ==
  { [fname |-> S_f1,
     xml |-> Document(TRUE, 1, <<Node(ENT_PERS, S_K, S_r1, None, S_x)>>)],
    [fname |-> S_f2,
     xml |-> Document(TRUE, 1, <<Node(ENT_PLACE, S_P, None, S_city, S_York),
                                 Node(ENT_PERS, S_K, S_r2, None, S_y)>>)],
    [fname |-> S_f3,
     xml |-> Document(TRUE, 1, <<Node(ENT_PERS, None, None, None, S_York)>>)],
    [fname |-> S_f4,
     xml |-> Document(TRUE, 1, <<Node(ENT_GEOG, S_bar, S_r1, None, S_x)>>)],
    [fname |-> S_f5, xml |-> Document(FALSE, 0, <<>>)],
    [fname |-> S_f6, xml |-> Document(TRUE, 0, <<>>)] }

\* The data file that an earlier session has left: the registry after
\* JUP_gatherFromXML(f1) and JUP_dumpData()
SAVED_DATA == <<Entity(ENT_PERS, S_K, S_r1, None, {S_K, S_x}, {S_f1})>>

Init ==
  /\ ENT_VARDICT = <<>>
  /\ datafile \in {NoDataFile, DataFile(SAVED_DATA)}
  /\ ENT_DATAMEM = <<>>
  /\ csvfile = None
  /\ op = "init"
  /\ err = ""
  /\ nops = 0
  /\ prev = <<>>
  /\ arg = Unused
  /\ xml = Unused /\ docs = Unused /\ regs = Unused /\ done = {}
  /\ first = NotRun /\ second = NotRun /\ third = NotRun /\ trace = <<>>

LifeUnchanged ==
  /\ UNCHANGED ENT_VARDICT
  /\ UNCHANGED <<xml, docs, regs, done, first, second, third, trace>>

\* if not ENT_DATAMEM and load_data: the registry of the data file, if
\* there is one, takes the place of an empty registry
LoadedData(mem, file) == IF mem = <<>> /\ file.exists THEN file.mem ELSE mem

\* JUP_gatherFromXML(fname): an empty ENT_DATAMEM is loaded from the data
\* file, then ENT_DATAMEM = discover_entities(xml, ENT_DATAMEM, fname); an
\* exception of discover_entities leaves ENT_DATAMEM as loaded.
GatherFromXML(f) ==
  /\ nops < MaxOps
  /\ op' = "gather"
  /\ arg' = f.fname
  /\ prev' = ENT_DATAMEM
  /\ \E mem \in {LoadedData(ENT_DATAMEM, datafile)} :
     \E r \in {discover_entities(f.xml, mem, f.fname)} :
       /\ err' = r.err
       /\ ENT_DATAMEM' = IF r.err = "" THEN r.val ELSE mem
  /\ nops' = nops + 1
  /\ UNCHANGED <<csvfile, datafile>>
  /\ LifeUnchanged

\* JUP_writeCSV(fname)
WriteCSV ==
  /\ nops < MaxOps
  /\ op' = "write"
  /\ arg' = Unused
  /\ prev' = ENT_DATAMEM
  /\ \E r \in {JUP_writeCSV(ENT_DATAMEM)} :
       /\ err' = r.err
       /\ csvfile' = r.val
  /\ nops' = nops + 1
  /\ UNCHANGED <<ENT_DATAMEM, datafile>>
  /\ LifeUnchanged

\* JUP_readCSV(fname, merge)
ReadCSV(merge) ==
  /\ nops < MaxOps
  /\ op' = "read"
  /\ arg' = merge
  /\ prev' = ENT_DATAMEM
  /\ \E r \in {JUP_readCSV(csvfile, ENT_DATAMEM, merge)} :
       /\ err' = r.err
       /\ ENT_DATAMEM' = IF r.err = "" THEN r.val ELSE ENT_DATAMEM
  /\ nops' = nops + 1
  /\ UNCHANGED <<csvfile, datafile>>
  /\ LifeUnchanged

\* JUP_dumpData(): pickle.dump(ENT_DATAMEM, f)
DumpData ==
  /\ nops < MaxOps
  /\ op' = "dump"
  /\ arg' = Unused
  /\ prev' = ENT_DATAMEM
  /\ err' = ""
  /\ datafile' = DataFile(ENT_DATAMEM)
  /\ nops' = nops + 1
  /\ UNCHANGED <<ENT_DATAMEM, csvfile>>
  /\ LifeUnchanged

\* JUP_loadData(): ENT_DATAMEM = pickle.load(f); open raises when there is
\* no data file
LoadData ==
  /\ nops < MaxOps
  /\ op' = "load"
  /\ arg' = Unused
  /\ prev' = ENT_DATAMEM
  /\ err' = IF datafile.exists THEN "" ELSE "FileNotFoundError"
  /\ ENT_DATAMEM' = IF datafile.exists THEN datafile.mem ELSE ENT_DATAMEM
  /\ nops' = nops + 1
  /\ UNCHANGED <<csvfile, datafile>>
  /\ LifeUnchanged

Next ==
  \/ \E f \in GatherFiles : GatherFromXML(f)
  \/ WriteCSV
  \/ \E merge \in BOOLEAN : ReadCSV(merge)
  \/ DumpData
  \/ LoadData

Spec == Init /\ [][Next]_vars

\* C7: when JUP_readCSV(merge=True) loads an entity B whose (kind, key) is
\* that of an entity A of the registry, the call returns normally and the
\* registry then holds exactly one entity for that (kind, key), with the
\* union of the variants and of the files, and with A's ref and geotype
\* where not empty, else B's.
SameId(a, b) == a.kind = b.kind /\ a.key = b.key

FillOnce(a, b) == IF Truthy(a) THEN a ELSE b

IsMergeOf(e, a, b) ==
  /\ SameId(e, a)
  /\ e.variants = a.variants \cup b.variants
  /\ e.files = a.files \cup b.files
  /\ e.ref = FillOnce(a.ref, b.ref)
  /\ e.geotype = FillOnce(a.geotype, b.geotype)

C7_PerEntityMerge ==
  (op = "read" /\ arg = TRUE /\ csvfile # None)
    => \A li \in {ReadEntities(csvfile)} :
         li.err = ""
           => \A i \in 1..Len(prev) : \A j \in 1..Len(li.val) :
                SameId(prev[i], li.val[j])
                  => /\ err = ""
                     /\ \E m \in 1..Len(ENT_DATAMEM) :
                          /\ IsMergeOf(ENT_DATAMEM[m], prev[i], li.val[j])
                          /\ \A n \in 1..Len(ENT_DATAMEM) :
                               SameId(ENT_DATAMEM[n], prev[i]) => n = m

\* C29: a call of JUP_gatherFromXML or of JUP_readCSV that raises leaves
\* ENT_DATAMEM, with the variants and the files of every entity, as it was
\* when the call started.
C29_FailureLeavesRegistry ==
  (op \in {"gather", "read"} /\ err # "") => ENT_DATAMEM = prev

\* C9: in every registry reached by discovery, load and merge, the
\* variants of each entity contain the entity's own key.
C9_KeyInVariants ==
  \A i \in 1..Len(ENT_DATAMEM) : ENT_DATAMEM[i].key \in ENT_DATAMEM[i].variants

\* C10: a discovery seeded with the registry keeps every non-empty ref of
\* it: the entity has the same ref in the registry that results, whatever
\* refs the document's mentions of its key carry.
C10_RefFirstWriterWins ==
  op = "gather"
    => \A i \in 1..Len(prev) :
         Truthy(prev[i].ref)
           => \E j \in 1..Len(ENT_DATAMEM) :
                /\ SameId(ENT_DATAMEM[j], prev[i])
                /\ ENT_DATAMEM[j].ref = prev[i].ref

\* The entity K has the ref r1, and the document f2, which mentions K with
\* the ref r2, has been gathered: K still has r1.
C10_Witness ==
  /\ op = "gather" /\ arg = S_f2 /\ err = ""
  /\ \E i \in 1..Len(prev) : prev[i].key = S_K /\ prev[i].ref = S_r1
  /\ \E j \in 1..Len(ENT_DATAMEM) :
       ENT_DATAMEM[j].key = S_K /\ ENT_DATAMEM[j].ref = S_r1

\* C11: a discovery seeded with the registry keeps every non-empty geotype
\* of it: the entity has the same geotype in the registry that results,
\* also when the document does not mention the entity or mentions it
\* without a type attribute.
C11_GeotypeFirstWriterWins ==
  op = "gather"
    => \A i \in 1..Len(prev) :
         Truthy(prev[i].geotype)
           => \E j \in 1..Len(ENT_DATAMEM) :
                /\ SameId(ENT_DATAMEM[j], prev[i])
                /\ ENT_DATAMEM[j].geotype = prev[i].geotype

\* C12: a discovery seeded with the registry keeps every entity of it, with
\* all the variants and all the files it had.
C12_RegistryOnlyGrows ==
  op = "gather"
    => \A i \in 1..Len(prev) :
         \E j \in 1..Len(ENT_DATAMEM) :
           /\ SameId(ENT_DATAMEM[j], prev[i])
           /\ prev[i].variants \subseteq ENT_DATAMEM[j].variants
           /\ prev[i].files \subseteq ENT_DATAMEM[j].files

\* The entity K has the variants K and x and the file f1, and the document
\* f2, which mentions K with the text y, has been gathered: K has the
\* variants K, x and y and the files f1 and f2.
C12_Witness ==
  /\ op = "gather" /\ arg = S_f2 /\ err = ""
  /\ \E i \in 1..Len(prev) :
       /\ prev[i].key = S_K
       /\ prev[i].variants = {S_K, S_x} /\ prev[i].files = {S_f1}
  /\ \E j \in 1..Len(ENT_DATAMEM) :
       /\ ENT_DATAMEM[j].key = S_K
       /\ ENT_DATAMEM[j].variants = {S_K, S_x, S_y}
       /\ ENT_DATAMEM[j].files = {S_f1, S_f2}

\* ------------------------------------------------------------------------
\* Injection: a document and a registry, then the injectors
\* ------------------------------------------------------------------------

MaxPieces == 2

S_A == <<"A">>
S_B == <<"B">>
S_M == <<"M">>
S_gt == <<"a", ">", "b">>
S_Marcus == <<"M", "a", "r", "c", "u", "s">>
S_MarcusAurelius ==
  <<"M", "a", "r", "c", "u", "s", " ", "A", "u", "r", "e", "l", "i", "u",
    "s">>
TEI_OPEN == <<"<", "T", "E", "I", ">">>
TEI_CLOSE ==
  <<"<", "/", "t", "e", "x", "t", ">", "<", "/", "T", "E", "I", ">">>
S_space == <<" ">>
TEI_HEADER ==
  <<"<", "T", "E", "I", ">", "<", "t", "e", "i", "H", "e", "a", "d", "e",
    "r", ">", " ", "M", " ", "<", "p", "e", "r", "s", "N", "a", "m", "e",
    " ", "k", "e", "y", "=", "\"", "A", "\"", ">", "M", "a", "r", "c", "u",
    "s", "<", "/", "p", "e", "r", "s", "N", "a", "m", "e", ">", "<", "/",
    "t", "e", "i", "H", "e", "a", "d", "e", "r", ">">>
PIECE_M == <<" ", "M", " ">>
PIECE_MM == <<" ", "M", " ", "M", " ">>
PIECE_PHRASE ==
  <<"M", "a", "r", "c", "u", "s", " ", "A", "u", "r", "e", "l", "i", "u",
    "s", " ", "r", "e", "i", "g", "n", "e", "d", " ", "l", "o", "n", "g",
    ".">>
PIECE_TAGGED ==
  <<"<", "p", "e", "r", "s", "N", "a", "m", "e", " ", "k", "e", "y", "=",
    "\"", "A", "\"", ">", "M", "a", "r", "c", "u", "s", "<", "/", "p", "e",
    "r", "s", "N", "a", "m", "e", ">">>
PIECE_HI == <<" ", "<", "h", "i", ">", "x", "<", "/", "h", "i", ">", " ">>
PIECE_NOTE ==
  <<"<", "n", "o", "t", "e", " ", "r", "e", "f", "=", "\"", "M", "a", "r",
    "c", "u", "s", "\"", ">", "n", "<", "/", "n", "o", "t", "e", ">">>
PIECE_BARE ==
  <<" ", "<", "p", "e", "r", "s", "N", "a", "m", "e", ">", "M", "a", "r",
    "c", "u", "s", "<", "/", "p", "e", "r", "s", "N", "a", "m", "e", ">">>

\* The registries an injection runs with
InjectRegistries ==
  { <<Entity(ENT_PERS, S_A, None, None, {S_A, S_Marcus}, {}),
      Entity(ENT_PERS, S_B, None, None, {S_B, S_MarcusAurelius}, {})>>,
    <<Entity(ENT_PERS, S_gt, None, None, {S_gt, S_M}, {})>>,
    <<Entity(ENT_PERS, S_Marcus, S_r1, None, {S_Marcus, S_M}, {S_f1})>>,
    <<Entity(ENT_PERS, S_K, S_r1, S_city, {S_K, S_M}, {S_f1})>>,
    <<Entity(ENT_PLACE, S_K, None, S_city, {S_K, S_space}, {S_f1})>> }

\* What a body is made of: text, tagged mentions, tags that are no entity
\* kind, and a second start of a text section
InjectPieces ==
  {PIECE_M, PIECE_MM, PIECE_PHRASE, PIECE_TAGGED, PIECE_HI, PIECE_NOTE,
   PIECE_BARE, TEXT_OPEN}

\* The document with the given body
DocOf(body) == TEI_OPEN \o TEXT_OPEN \o body \o TEI_CLOSE

\* The document with the given body and a head that holds a variant and a
\* tagged mention
HeadedDocOf(body) == TEI_HEADER \o TEXT_OPEN \o body \o TEI_CLOSE

\* A document with no text section
NO_TEXT_DOC == TEI_OPEN \o <<"<", "/", "T", "E", "I", ">">>

InjectDocs ==
  {DocOf(Join(ps, <<>>)) :
     ps \in UNION {[1..n -> InjectPieces] : n \in 0..MaxPieces}}
    \cup {HeadedDocOf(Join(ps, <<>>)) :
            ps \in UNION {[1..n -> InjectPieces] : n \in 0..(MaxPieces - 1)}}
    \cup {NO_TEXT_DOC}

InitInject ==
  /\ ENT_VARDICT = <<>> /\ datafile = NoDataFile
  /\ ENT_DATAMEM \in InjectRegistries
  /\ xml \in InjectDocs
  /\ op = "init"
  /\ err = ""
  /\ done = {}
  /\ first = NotRun /\ second = NotRun /\ third = NotRun
  /\ csvfile = None /\ nops = 0 /\ prev = <<>> /\ arg = Unused
  /\ docs = Unused /\ regs = Unused /\ trace = <<>>

InjectUnchanged ==
  /\ UNCHANGED <<ENT_VARDICT, datafile>>
  /\ UNCHANGED <<ENT_DATAMEM, xml, csvfile, nops, prev, arg, docs, regs, trace>>

\* first = JUP_replaceEntitiesXML(xml)
ReplaceEntities ==
  /\ "replace" \notin done
  /\ first' = JUP_replaceEntitiesXML(xml, ENT_DATAMEM, ENT_TYPES)
  /\ op' = "replace"
  /\ err' = first'.err
  /\ done' = done \cup {"replace"}
  /\ UNCHANGED <<second, third>>
  /\ InjectUnchanged

\* second = JUP_replaceEntitiesXML(first)
ReplaceAgain ==
  /\ "replace" \in done /\ first.err = ""
  /\ "again" \notin done
  /\ second' = JUP_replaceEntitiesXML(first.val, ENT_DATAMEM, ENT_TYPES)
  /\ op' = "again"
  /\ err' = second'.err
  /\ done' = done \cup {"again"}
  /\ UNCHANGED <<first, third>>
  /\ InjectUnchanged

\* third = JUP_addEntitiesXML(xml)
AddEntities ==
  /\ "add" \notin done
  /\ third' = JUP_addEntitiesXML(xml, ENT_DATAMEM, ENT_TYPES)
  /\ op' = "add"
  /\ err' = third'.err
  /\ done' = done \cup {"add"}
  /\ UNCHANGED <<first, second>>
  /\ InjectUnchanged

NextInject == ReplaceEntities \/ ReplaceAgain \/ AddEntities

SpecInject == InitInject /\ [][NextInject]_vars

\* C1: replace applied to its own output gives that output again, for a
\* document with exactly one body section.
C1_ReplaceIdempotent ==
  "again" \in done => second.err = "" /\ second.val = first.val

\* The start and end tags of the body of a document that are no entity
\* kind, in the order of the text
BodyOf(doc) == Split(doc, TEXT_OPEN)[2]

UnmanagedTags(doc) == recodeXMLTags(BodyOf(doc), ENT_TYPES).tags

\* C2: in replace mode and in add mode, the tags of the body that are no
\* entity kind are in the output as they are in the input: the same
\* strings, as many times, in the same order.
C2_TagSyntaxPreserved ==
  /\ ("replace" \in done /\ first.err = "")
       => UnmanagedTags(first.val) = UnmanagedTags(xml)
  /\ ("add" \in done /\ third.err = "")
       => UnmanagedTags(third.val) = UnmanagedTags(xml)

\* s occurs in txt
Occurs(s, txt) == Find(txt, s, 0) >= 0

\* C3: with Marcus a variant of A and Marcus Aurelius a variant of B, add
\* mode on the body "Marcus Aurelius reigned long." wraps the phrase
\* Marcus Aurelius in the tag of B and makes no tag of A.
C3_LongestMatchAdd ==
  ( /\ "add" \in done
    /\ xml = DocOf(PIECE_PHRASE)
    /\ \E i \in 1..Len(ENT_DATAMEM) :
         ENT_DATAMEM[i].key = S_A /\ S_Marcus \in ENT_DATAMEM[i].variants
    /\ \E i \in 1..Len(ENT_DATAMEM) :
         ENT_DATAMEM[i].key = S_B
           /\ S_MarcusAurelius \in ENT_DATAMEM[i].variants )
    => /\ third.err = ""
       /\ \E i \in 1..Len(ENT_DATAMEM) :
            /\ ENT_DATAMEM[i].key = S_B
            /\ Occurs(xmltag(ENT_DATAMEM[i], S_MarcusAurelius), third.val)
       /\ \A i \in 1..Len(ENT_DATAMEM) :
            ENT_DATAMEM[i].key = S_A
              => ~Occurs(xmltag(ENT_DATAMEM[i], S_Marcus), third.val)

\* The text holds the start or the end of a marker
MarkerShaped(txt) ==
  Occurs(<<"[", "[">>, txt) \/ Occurs(<<"]", "]">>, txt)

\* C14: for a document with no marker-shaped text, the output of replace
\* mode and of add mode holds no marker, whole or in part.
C14_NoMarkerSurvives ==
  ~MarkerShaped(xml)
    => /\ ("replace" \in done /\ first.err = "") => ~MarkerShaped(first.val)
       /\ ("add" \in done /\ third.err = "") => ~MarkerShaped(third.val)

\* The number of starts of a text section in the document
BodyStarts(doc) == Len(Split(doc, TEXT_OPEN)) - 1

\* C15: replace mode and add mode raise TEIStructureError for a document
\* with no start of a text section and for one with more than one, and
\* split off the body of a document with exactly one.
C15_ExactlyOneBody ==
  /\ "replace" \in done
       => IF BodyStarts(xml) = 1 THEN first.err = ""
          ELSE first.err = "TEIStructureError"
  /\ "add" \in done
       => IF BodyStarts(xml) = 1
          THEN third.err \notin {"TEIStructureError", "ValueError"}
          ELSE third.err = "TEIStructureError"

\* The tag the rendering rule gives for entity e and matched variant v: the
\* key always, the ref when present, the type when the geotype is present
\* and the kind is place or geographic, the content v, the end tag of the
\* kind.
CanonicalTag(e, v) ==
  <<"<">> \o e.kind \o <<" ", "k", "e", "y", "=", "\"">> \o e.key \o <<"\"">>
    \o (IF Truthy(e.ref)
        THEN <<" ", "r", "e", "f", "=", "\"">> \o e.ref \o <<"\"">>
        ELSE <<>>)
    \o (IF Truthy(e.geotype) /\ e.kind \in {ENT_PLACE, ENT_GEOG}
        THEN <<" ", "t", "y", "p", "e", "=", "\"">> \o e.geotype \o <<"\"">>
        ELSE <<>>)
    \o <<">">> \o v \o <<"<", "/">> \o e.kind \o <<">">>

\* The tag of e for v is in the outcome r of an injection
Produced(r, e, v) == r.err = "" /\ Occurs(xmltag(e, v), r.val)

\* C17: every tag that replace mode or add mode produces for an entity e
\* and a variant v is the canonical tag: no type attribute for a person.
C17_CanonicalTag ==
  \A i \in 1..Len(ENT_DATAMEM) : \A v \in ENT_DATAMEM[i].variants :
    /\ ("replace" \in done /\ Produced(first, ENT_DATAMEM[i], v))
         => xmltag(ENT_DATAMEM[i], v) = CanonicalTag(ENT_DATAMEM[i], v)
    /\ ("add" \in done /\ Produced(third, ENT_DATAMEM[i], v))
         => xmltag(ENT_DATAMEM[i], v) = CanonicalTag(ENT_DATAMEM[i], v)

\* A variant that is empty after trim
Blank(v) == Strip(v) = <<>>

\* The registry with the variants that are empty after trim removed
WithoutBlank(reg) ==
  [i \in 1..Len(reg) |->
     [reg[i] EXCEPT !.variants = {v \in reg[i].variants : ~Blank(v)}]]

\* C18: with a registry that holds a variant that is empty after trim,
\* replace mode and add mode give the output they give with that variant
\* removed from the registry.
C18_BlankVariantsNeverMatch ==
  (\E i \in 1..Len(ENT_DATAMEM) : \E v \in ENT_DATAMEM[i].variants : Blank(v))
    => /\ "replace" \in done
            => first = JUP_replaceEntitiesXML(xml, WithoutBlank(ENT_DATAMEM),
                                              ENT_TYPES)
       /\ "add" \in done
            => third = JUP_addEntitiesXML(xml, WithoutBlank(ENT_DATAMEM),
                                          ENT_TYPES)

\* The text of the document up to and including the start of the text
\* section
HeadOf(doc) == Split(doc, TEXT_OPEN)[1] \o TEXT_OPEN

\* s begins with t
StartsWith(s, t) == Len(s) >= Len(t) /\ SubSeq(s, 1, Len(t)) = t

\* C19: the output of replace mode and of add mode begins with the text of
\* the input up to and including the start of the text section, whatever
\* the head holds.
C19_HeadUntouched ==
  /\ ("replace" \in done /\ first.err = "")
       => StartsWith(first.val, HeadOf(xml))
  /\ ("add" \in done /\ third.err = "")
       => StartsWith(third.val, HeadOf(xml))

\* The head holds the variant M and a tagged mention, the body holds M, and
\* replace mode has tagged the M of the body and left the head as it was.
C19_Witness ==
  /\ "replace" \in done /\ first.err = ""
  /\ xml = HeadedDocOf(PIECE_M)
  /\ \E i \in 1..Len(ENT_DATAMEM) : S_M \in ENT_DATAMEM[i].variants
  /\ first.val # xml
  /\ StartsWith(first.val, TEI_HEADER \o TEXT_OPEN)

\* The text between the start of the text section and the end tags of the
\* document
TextOf(doc) ==
  Slice(BodyOf(doc), 0, Len(BodyOf(doc)) - Len(TEI_CLOSE))

\* The body of the document is text, with no tag before its end tags
PlainBody(doc) ==
  /\ BodyStarts(doc) = 1
  /\ EndsWith(BodyOf(doc), TEI_CLOSE)
  /\ ~Occurs(<<"<">>, TextOf(doc))

\* How many times s occurs in txt
CountOcc(s, txt) ==
  Cardinality({p \in 0..(Len(txt) - 1) : MatchAt(txt, s, p)})

\* How many occurrences of v in txt have a non-word character immediately
\* before and after
BoundedCount(v, txt) ==
  Cardinality({p \in 0..(Len(txt) - 1) : BoundedAt(txt, v, p)})

\* v is the one variant of the registry that occurs in txt
OnlyVariantIn(v, txt) ==
  \A i \in 1..Len(ENT_DATAMEM) : \A w \in ENT_DATAMEM[i].variants :
    Occurs(w, txt) => w = v

\* C20: for a body of plain text in which one variant v of the registry
\* occurs, replace mode wraps every occurrence of v that has a non-word
\* character immediately before and after: the body holds the tag of v
\* as many times as the text holds such occurrences, also when two of them
\* share the one character between them (" M M ").
C20_EveryBoundedOccurrence ==
  ("replace" \in done /\ first.err = "" /\ PlainBody(xml))
    => \A i \in 1..Len(ENT_DATAMEM) : \A v \in ENT_DATAMEM[i].variants :
         OnlyVariantIn(v, TextOf(xml))
           => CountOcc(xmltag(ENT_DATAMEM[i], v), BodyOf(first.val))
                = BoundedCount(v, TextOf(xml))

\* ------------------------------------------------------------------------
\* The registry file: two registries, saved, loaded and merged
\* ------------------------------------------------------------------------

MaxEntities == 2

S_Roma == <<"R", "o", "m", "a">>
S_Urbs == <<"U", "r", "b", "s">>
S_Romulus == <<"R", "o", "m", "u", "l", "u", "s">>
S_semi == <<"x", ";", "y">>

\* The entities the registries are made of
CsvEntities ==
  { Entity(ENT_PLACE, S_Roma, None, None, {S_Roma, S_Urbs}, {S_f1}),
    Entity(ENT_PLACE, S_Roma, S_r1, S_city, {S_Roma}, {S_f2}),
    Entity(ENT_PERS, S_Roma, S_r2, None, {S_Roma, S_Romulus}, {}),
    Entity(ENT_PERS, S_K, S_semi, None, {S_K}, {S_f1}) }

\* The registries: lists with one entity at most for a (kind, key)
CsvRegistries ==
  {r \in UNION {[1..n -> CsvEntities] : n \in 0..MaxEntities} :
     \A i \in 1..Len(r) : \A j \in 1..Len(r) :
       (r[i].kind = r[j].kind /\ r[i].key = r[j].key) => i = j}

\* ENT_DATAMEM after JUP_writeCSV with the registry saved, then
\* JUP_readCSV(merge) with the registry mem
SaveThenLoad(saved, mem, merge) ==
  Let(JUP_writeCSV(saved), LAMBDA w :
    IF w.err # "" THEN Raise(w.err) ELSE JUP_readCSV(w.val, mem, merge))

InitCSV ==
  /\ ENT_VARDICT = <<>> /\ datafile = NoDataFile
  /\ regs \in CsvRegistries \X CsvRegistries
  /\ op = "init"
  /\ err = ""
  /\ done = {}
  /\ first = NotRun /\ second = NotRun /\ third = NotRun
  /\ ENT_DATAMEM = <<>> /\ csvfile = None /\ nops = 0 /\ prev = <<>>
  /\ arg = Unused /\ xml = Unused /\ docs = Unused /\ trace = <<>>

CsvUnchanged ==
  /\ UNCHANGED <<ENT_VARDICT, datafile>>
  /\ UNCHANGED <<ENT_DATAMEM, csvfile, nops, prev, arg, xml, docs, regs, trace>>

\* regs[1] saved, then loaded with merge off
SaveLoad ==
  /\ "saveload" \notin done
  /\ first' = SaveThenLoad(regs[1], <<>>, FALSE)
  /\ op' = "saveload"
  /\ err' = first'.err
  /\ done' = done \cup {"saveload"}
  /\ UNCHANGED <<second, third>>
  /\ CsvUnchanged

\* regs[2] saved, then loaded with merge on into the registry regs[1]
MergeSecondIntoFirst ==
  /\ "merge21" \notin done
  /\ second' = SaveThenLoad(regs[2], regs[1], TRUE)
  /\ op' = "merge21"
  /\ err' = second'.err
  /\ done' = done \cup {"merge21"}
  /\ UNCHANGED <<first, third>>
  /\ CsvUnchanged

\* regs[1] saved, then loaded with merge on into the registry regs[2]
MergeFirstIntoSecond ==
  /\ "merge12" \notin done
  /\ third' = SaveThenLoad(regs[1], regs[2], TRUE)
  /\ op' = "merge12"
  /\ err' = third'.err
  /\ done' = done \cup {"merge12"}
  /\ UNCHANGED <<first, second>>
  /\ CsvUnchanged

NextCSV == SaveLoad \/ MergeSecondIntoFirst \/ MergeFirstIntoSecond

SpecCSV == InitCSV /\ [][NextCSV]_vars

\* The entities of a registry
EntitySet(reg) == {reg[i] : i \in 1..Len(reg)}

\* C4: a registry written and read back (merge off) is the same registry:
\* the same (kind, key) entries, each with the same variants, files, ref
\* and geotype, also when a value holds the delimiter ';'.
C4_RoundTrip ==
  "saveload" \in done
    => first.err = "" /\ EntitySet(first.val) = EntitySet(regs[1])

\* The entries of a registry without ref and geotype
Entries(reg) ==
  {[kind |-> reg[i].kind, key |-> reg[i].key,
    variants |-> reg[i].variants, files |-> reg[i].files] : i \in 1..Len(reg)}

\* a and b of the two registries both carry a value, and not the same
Conflict(ra, rb, e, field(_)) ==
  \E a \in EntitySet(ra) : \E b \in EntitySet(rb) :
    /\ SameId(a, e) /\ SameId(b, e)
    /\ Truthy(field(a)) /\ Truthy(field(b)) /\ field(a) # field(b)

\* C8: merging the second registry into the first and the first into the
\* second give the same entries with the same variants and files; ref and
\* geotype differ only where both registries carry different values.
C8_MergeOrderIndependent ==
  {"merge21", "merge12"} \subseteq done
    => /\ second.err = "" /\ third.err = ""
       /\ Entries(second.val) = Entries(third.val)
       /\ \A e \in EntitySet(second.val) : \A f \in EntitySet(third.val) :
            SameId(e, f)
              => /\ e.ref # f.ref
                      => Conflict(regs[1], regs[2], e, LAMBDA x : x.ref)
                 /\ e.geotype # f.geotype
                      => Conflict(regs[1], regs[2], e, LAMBDA x : x.geotype)

\* ------------------------------------------------------------------------
\* Discovery: two documents, one after the other and as one
\* ------------------------------------------------------------------------

MaxNodes == 2

\* The nodes the documents are made of
DiscoverNodes ==
  { Node(ENT_PERS, None, None, None, S_York),
    Node(ENT_PERS, S_K, S_r1, None, S_York),
    Node(ENT_PLACE, S_P, None, S_city, S_York),
    Node(ENT_PERS, S_K, S_r2, None, S_x),
    Node(ENT_PLACE, S_K, None, S_city, S_y) }

DiscoverDocs ==
  {Document(TRUE, 1, ns) :
     ns \in UNION {[1..n -> DiscoverNodes] : n \in 0..MaxNodes}}
    \cup {Document(FALSE, 0, <<>>), Document(TRUE, 0, <<>>)}

\* The document with the nodes of a, then the nodes of b, in its text
Concatenation(a, b) ==
  Document(a.wellformed /\ b.wellformed, 1, a.nodes \o b.nodes)

\* The nodes of one pass of discover_entities with the key of each
PassTrace(x, merge_from, filename) ==
  IF x.wellformed /\ x.texts = 1
  THEN Discovered(x, merge_from, filename).keys
  ELSE <<>>

InitDiscover ==
  /\ ENT_VARDICT = <<>> /\ datafile = NoDataFile
  /\ docs \in DiscoverDocs \X DiscoverDocs
  /\ op = "init"
  /\ err = ""
  /\ done = {}
  /\ first = NotRun /\ second = NotRun /\ third = NotRun /\ trace = <<>>
  /\ ENT_DATAMEM = <<>> /\ csvfile = None /\ nops = 0 /\ prev = <<>>
  /\ arg = Unused /\ xml = Unused /\ regs = Unused

DiscoverUnchanged ==
  /\ UNCHANGED <<ENT_VARDICT, datafile>>
  /\ UNCHANGED <<ENT_DATAMEM, csvfile, nops, prev, arg, xml, docs, regs>>

\* first = discover_entities(docs[1], filename=f1)
DiscoverFirst ==
  /\ "first" \notin done
  /\ first' = discover_entities(docs[1], <<>>, S_f1)
  /\ trace' = PassTrace(docs[1], <<>>, S_f1)
  /\ op' = "first"
  /\ err' = first'.err
  /\ done' = done \cup {"first"}
  /\ UNCHANGED <<second, third>>
  /\ DiscoverUnchanged

\* second = discover_entities(docs[2], merge_from=first, filename=f1)
DiscoverSeeded ==
  /\ "first" \in done /\ first.err = ""
  /\ "seeded" \notin done
  /\ second' = discover_entities(docs[2], first.val, S_f1)
  /\ trace' = PassTrace(docs[2], first.val, S_f1)
  /\ op' = "seeded"
  /\ err' = second'.err
  /\ done' = done \cup {"seeded"}
  /\ UNCHANGED <<first, third>>
  /\ DiscoverUnchanged

\* third = discover_entities(the two documents as one, filename=f1)
DiscoverConcatenation ==
  /\ "concat" \notin done
  /\ docs[1].wellformed /\ docs[1].texts = 1
  /\ docs[2].wellformed /\ docs[2].texts = 1
  /\ third' = discover_entities(Concatenation(docs[1], docs[2]), <<>>, S_f1)
  /\ trace' = PassTrace(Concatenation(docs[1], docs[2]), <<>>, S_f1)
  /\ op' = "concat"
  /\ err' = third'.err
  /\ done' = done \cup {"concat"}
  /\ UNCHANGED <<first, second>>
  /\ DiscoverUnchanged

NextDiscover == DiscoverFirst \/ DiscoverSeeded \/ DiscoverConcatenation

SpecDiscover == InitDiscover /\ [][NextDiscover]_vars

\* C5: discovery on the first document, then on the second seeded with the
\* result, gives the entries (kind, key, variants, files) that one
\* discovery on the two documents as one gives.
C5_MergeDeterminism ==
  ({"seeded", "concat"} \subseteq done /\ second.err = "" /\ third.err = "")
    => Entries(second.val) = Entries(third.val)

\* Node i of the pass is an unkeyed mention with a text not known yet, node
\* j a later unkeyed mention with the same text
LaterUnkeyed(i, j) ==
  /\ i < j
  /\ ~trace[i].keyed /\ ~trace[i].known
  /\ ~trace[j].keyed /\ trace[j].variant = trace[i].variant

\* A keyed mention with the text of node i is processed between i and j
KeyedBetween(i, j) ==
  \E m \in (i + 1)..(j - 1) :
    trace[m].keyed /\ trace[m].variant = trace[i].variant

\* C6, as stated: an unkeyed mention with a text t not known yet gets the
\* key '[[UNKNOWN:t]]', and every later unkeyed mention of t in the pass
\* gets that key, whatever is processed in between.
C6_AsStated ==
  \A i \in 1..Len(trace) : \A j \in 1..Len(trace) :
    LaterUnkeyed(i, j)
      => /\ trace[i].key = UnknownKey(trace[i].variant)
         /\ trace[j].key = trace[i].key

\* C6: an unkeyed mention with a text t not known yet gets the key
\* '[[UNKNOWN:t]]', and every later unkeyed mention of t in the pass gets
\* that key unless a keyed mention with the text t is processed in between.
C6_UnknownKeySynthesis ==
  \A i \in 1..Len(trace) : \A j \in 1..Len(trace) :
    LaterUnkeyed(i, j)
      => /\ trace[i].key = UnknownKey(trace[i].variant)
         /\ ~KeyedBetween(i, j) => trace[j].key = trace[i].key

\* A pass in which two unkeyed mentions of a text not known before have a
\* keyed mention with another text between them, and both have the
\* placeholder key.
C6_Witness ==
  \E i \in 1..Len(trace) : \E j \in 1..Len(trace) :
    /\ LaterUnkeyed(i, j)
    /\ \E m \in (i + 1)..(j - 1) : trace[m].keyed
    /\ ~KeyedBetween(i, j)
    /\ trace[j].key = UnknownKey(trace[i].variant)

\* The outcome of the pass that ran last, and the registry it was seeded
\* with
LastPass ==
  IF op = "first" THEN first ELSE IF op = "seeded" THEN second ELSE third

SeedOfLastPass == IF op = "seeded" THEN first.val ELSE <<>>

\* The variants attested for e under its own kind: its key, the texts of
\* the mentions of its kind filed under its key, and the variants the seed
\* holds for its kind and key
Attested(e) ==
  {e.key}
    \cup {trace[m].variant :
            m \in {n \in 1..Len(trace) :
                     trace[n].kind = e.kind /\ trace[n].key = e.key}}
    \cup UNION {x.variants :
                  x \in {y \in EntitySet(SeedOfLastPass) : SameId(y, e)}}

\* C13: for every mention with a key of its own, the result of the pass
\* holds an entity with the mention's kind and key, and that entity has
\* only variants attested under its own kind; mentions of one key under
\* two kinds give two entities.
C13_IdentityKindKey ==
  (op \in {"first", "seeded", "concat"} /\ err = "")
    => \A i \in 1..Len(trace) :
         trace[i].keyed
           => \E e \in EntitySet(LastPass.val) :
                /\ e.kind = trace[i].kind /\ e.key = trace[i].key
                /\ e.variants \subseteq Attested(e)

\* ------------------------------------------------------------------------
\* Directory runs: a directory and a registry, then the three runs
\* ------------------------------------------------------------------------

MaxFiles == 2

S_a_xml == <<"a", ".", "x", "m", "l">>
S_b_XML == <<"b", ".", "X", "M", "L">>
S_c_xml == <<"c", ".", "x", "m", "l">>
S_d_xml == <<"d", ".", "x", "m", "l">>
S_e_txt == <<"e", ".", "t", "x", "t">>
UNCLOSED_DOC ==
  TEI_OPEN \o TEXT_OPEN \o <<"<", "h", "i", ">", " ", "M", " ">> \o TEI_CLOSE

\* The files a directory is made of: two documents in order, one that is
\* not well-formed, one without a text section, and a file that is no
\* .xml file.
BatchFiles ==
  { DirFile(S_a_xml, DocOf(PIECE_M),
            Document(TRUE, 1, <<Node(ENT_PERS, S_K, S_r1, None, S_M)>>)),
    DirFile(S_b_XML, DocOf(PIECE_HI),
            Document(TRUE, 1, <<Node(ENT_PLACE, S_P, None, S_city, S_York)>>)),
    DirFile(S_c_xml, UNCLOSED_DOC, Document(FALSE, 0, <<>>)),
    DirFile(S_d_xml, NO_TEXT_DOC, Document(TRUE, 0, <<>>)),
    DirFile(S_e_txt, <<"M">>, Document(FALSE, 0, <<>>)) }

\* os.listdir(dname): the files of the directory, in any order
BatchDirs ==
  {d \in UNION {[1..n -> BatchFiles] : n \in 0..MaxFiles} :
     \A i \in 1..Len(d) : \A j \in 1..Len(d) : d[i] = d[j] => i = j}

BatchRegistries ==
  { <<>>, <<Entity(ENT_PERS, S_K, S_r1, None, {S_K, S_M}, {S_f1})>> }

InitBatch ==
  /\ ENT_VARDICT = <<>> /\ datafile = NoDataFile
  /\ docs \in BatchDirs
  /\ ENT_DATAMEM \in BatchRegistries
  /\ op = "init"
  /\ err = ""
  /\ done = {}
  /\ first = NotRun /\ second = NotRun /\ third = NotRun
  /\ csvfile = None /\ nops = 0 /\ prev = <<>> /\ arg = Unused
  /\ xml = Unused /\ regs = Unused /\ trace = <<>>

BatchUnchanged ==
  /\ UNCHANGED <<ENT_VARDICT, datafile>>
  /\ UNCHANGED <<csvfile, nops, arg, xml, docs, regs, trace>>

\* JUP_gatherFromXMLDir(dname)
GatherFromXMLDir ==
  /\ "gatherdir" \notin done
  /\ first' = JUP_gatherFromXMLDir(docs, ENT_DATAMEM)
  /\ ENT_DATAMEM' = first'.val
  /\ prev' = ENT_DATAMEM
  /\ op' = "gatherdir"
  /\ err' = first'.err
  /\ done' = done \cup {"gatherdir"}
  /\ UNCHANGED <<second, third>>
  /\ BatchUnchanged

\* JUP_replaceEntitiesXMLDir(dname, destdir)
ReplaceEntitiesXMLDir ==
  /\ "replacedir" \notin done
  /\ second' = JUP_replaceEntitiesXMLDir(docs, ENT_DATAMEM)
  /\ op' = "replacedir"
  /\ err' = second'.err
  /\ done' = done \cup {"replacedir"}
  /\ UNCHANGED <<ENT_DATAMEM, prev, first, third>>
  /\ BatchUnchanged

\* JUP_addEntitiesXMLDir(dname, destdir)
AddEntitiesXMLDir ==
  /\ "adddir" \notin done
  /\ third' = JUP_addEntitiesXMLDir(docs, ENT_DATAMEM)
  /\ op' = "adddir"
  /\ err' = third'.err
  /\ done' = done \cup {"adddir"}
  /\ UNCHANGED <<ENT_DATAMEM, prev, first, second>>
  /\ BatchUnchanged

NextBatch == GatherFromXMLDir \/ ReplaceEntitiesXMLDir \/ AddEntitiesXMLDir

SpecBatch == InitBatch /\ [][NextBatch]_vars

\* The names of the .xml files of the directory
XmlNames == {docs[i].fname : i \in {n \in 1..Len(docs) : IsXmlName(docs[n].fname)}}

\* C16: a directory run returns normally whatever its documents are, and
\* the operation has been called on every .xml file of the directory: a
\* document that fails does not keep the others from being processed.
C16_BatchIsolation ==
  /\ "gatherdir" \in done => first.err = "" /\ XmlNames \subseteq first.tried
  /\ "replacedir" \in done => second.err = "" /\ XmlNames \subseteq second.tried
  /\ "adddir" \in done => third.err = "" /\ XmlNames \subseteq third.tried

\* ------------------------------------------------------------------------
\* Add mode: documents that hold tagged mentions, then the injectors
\* ------------------------------------------------------------------------

S_mk == <<"m", "k">>
S_nk == <<"n", "k">>
S_D == <<"D">>
S_Q == <<"Q">>
S_ID1 == <<"I", "D", "0", "0", "0", "0", "0", "0", "0", "0", "0", "1">>
TAG_A ==
  <<"<", "p", "e", "r", "s", "N", "a", "m", "e", " ", "k", "e", "y", "=",
    "\"", "A", "\"", ">">>
TAG_X ==
  <<"<", "p", "e", "r", "s", "N", "a", "m", "e", " ", "k", "e", "y", "=",
    "\"", "X", "\"", ">">>
TAG_GT ==
  <<"<", "p", "e", "r", "s", "N", "a", "m", "e", " ", "r", "e", "f", "=",
    "\"", "a", ">", " ", "M", "a", "r", "c", "u", "s", " ", "b", "\"", ">">>
PERS_CLOSE == <<"<", "/", "p", "e", "r", "s", "N", "a", "m", "e", ">">>
PIECE_MARCUS == <<" ", "M", "a", "r", "c", "u", "s", " ">>
PIECE_MARCUSQUE == <<" ", "M", "a", "r", "c", "u", "s", "q", "u", "e", " ">>
FRIAR ==
  <<"F", "r", "i", "a", "r", " ", "M", "a", "r", "c", "u", "s", " ", "o",
    "f", " ", "Y", "o", "r", "k">>
TRUNCATED_DOC ==
  <<"<", "T", "E", "I", ">", "<", "t", "e", "x", "t", ">", " ", "M", "a",
    "r", "c", "u", "s">>

\* A tagged mention whose start tag holds '>' and a variant in an attribute
\* value, and one whose content holds a variant between other words
PIECE_GT == TAG_GT \o <<"x">> \o PERS_CLOSE
PIECE_FRIAR == TAG_X \o FRIAR \o PERS_CLOSE

\* The registries of an add run: one entity; one whose key is a letter of
\* the markers; two entities that share a variant; one with a variant that
\* reads as the inside of a marker
AddRegistries ==
  { <<Entity(ENT_PERS, S_mk, None, None, {S_mk, S_Marcus}, {})>>,
    <<Entity(ENT_PERS, S_D, None, None, {S_D, S_Marcus}, {})>>,
    <<Entity(ENT_PERS, S_mk, None, None, {S_mk, S_Marcus}, {}),
      Entity(ENT_PLACE, S_nk, None, None, {S_nk, S_Marcus}, {})>>,
    <<Entity(ENT_PERS, S_B, None, None, {S_B, S_MarcusAurelius}, {}),
      Entity(ENT_PERS, S_Q, None, None, {S_Q, S_ID1}, {})>> }

AddPieces ==
  {PIECE_TAGGED, PIECE_GT, PIECE_FRIAR, PIECE_MARCUS, PIECE_MARCUSQUE,
   PIECE_PHRASE}

\* The documents of an add run, among them one that ends with a variant
AddDocs ==
  {DocOf(Join(ps, <<>>)) :
     ps \in UNION {[1..n -> AddPieces] : n \in 0..MaxPieces}}
    \cup {TRUNCATED_DOC}

InitAdd ==
  /\ ENT_VARDICT = <<>> /\ datafile = NoDataFile
  /\ ENT_DATAMEM \in AddRegistries
  /\ xml \in AddDocs
  /\ op = "init"
  /\ err = ""
  /\ done = {}
  /\ first = NotRun /\ second = NotRun /\ third = NotRun
  /\ csvfile = None /\ nops = 0 /\ prev = <<>> /\ arg = Unused
  /\ docs = Unused /\ regs = Unused /\ trace = <<>>

\* JUP_generateVarKeys()
GenerateVarKeys ==
  /\ "varkeys" \notin done
  /\ ENT_VARDICT' = JUP_generateVarKeys(ENT_DATAMEM)
  /\ op' = "varkeys"
  /\ err' = ""
  /\ done' = done \cup {"varkeys"}
  /\ UNCHANGED <<ENT_DATAMEM, datafile, xml, csvfile, nops, prev, arg, docs,
                 regs, trace, first, second, third>>

NextAdd == NextInject \/ GenerateVarKeys

SpecAdd == InitAdd /\ [][NextAdd]_vars

\* The start tags of the tagged mentions of the documents
ManagedStartTags == {TAG_A, TAG_X, TAG_GT}

\* C21: add mode replaces no occurrence of a variant between the '<' and
\* the '>' of a tag of an entity kind: every start tag of a tagged mention
\* of the input is in the output as it is, as many times.
C21_ManagedTagsUntouched ==
  ("add" \in done /\ third.err = "")
    => \A t \in ManagedStartTags :
         CountOcc(t, third.val) >= CountOcc(t, xml)


\* The tagged mentions of the documents whose start tags keep to the
\* usual attribute values
TaggedMentions == {PIECE_TAGGED, PIECE_FRIAR}

\* C22: add mode puts no tag into the content of a tagged mention of the
\* input: every tagged mention of the input is in the output as it is, as
\* many times.
C22_OnlyUntaggedText ==
  ("add" \in done /\ third.err = "")
    => \A m \in TaggedMentions :
         CountOcc(m, third.val) >= CountOcc(m, xml)


\* tail after the first n passes of "for k in sorted_keys", in add mode
\* and in replace mode
AddPasses(doc, mem, n) ==
  Let(VarDict(mem), LAMBDA vardict :
    AddKeys(recodeXMLTags(BodyOf(doc), ENT_TYPES).txt,
            SubSeq(SortedKeys(DOMAIN vardict), 1, n), 0, vardict))

ReplacePasses(doc, mem, n) ==
  Let(VarDict(mem), LAMBDA vardict :
    ReplaceKeys(StripTypes(recodeXMLTags(BodyOf(doc), ENT_TYPES).txt,
                           ENT_TYPES),
                SubSeq(SortedKeys(DOMAIN vardict), 1, n), 0, vardict))

NumKeys(mem) == Cardinality(VarDictKeys(mem))

\* C23: in both modes, the occurrences that the pass of a variant has
\* claimed stay claimed: the markers of the n-th pass that are in the text
\* after that pass are all in the text after the last pass.
C23_ClaimedSpanNeverSplit ==
  /\ ("add" \in done /\ third.err = "" /\ ~MarkerShaped(xml))
       => \A n \in 1..NumKeys(ENT_DATAMEM) :
            CountOcc(IdMarker(n), AddPasses(xml, ENT_DATAMEM, n).val)
              = CountOcc(IdMarker(n),
                         AddPasses(xml, ENT_DATAMEM,
                                   NumKeys(ENT_DATAMEM)).val)
  /\ ("replace" \in done /\ first.err = "" /\ ~MarkerShaped(xml))
       => \A n \in 1..NumKeys(ENT_DATAMEM) :
            CountOcc(IdMarker(n), ReplacePasses(xml, ENT_DATAMEM, n))
              = CountOcc(IdMarker(n),
                         ReplacePasses(xml, ENT_DATAMEM,
                                       NumKeys(ENT_DATAMEM)))


\* The entities of the registry that list the variant v, by position
Listing(v) == {i \in 1..Len(ENT_DATAMEM) : v \in ENT_DATAMEM[i].variants}

LastOf(S) == CHOOSE i \in S : \A j \in S : j <= i

\* A tag for the variant v with the key of an entity that lists v and is
\* not the last one to list it
EarlierTagIn(txt) ==
  \E v \in VarDictKeys(ENT_DATAMEM) : \E i \in Listing(v) :
    /\ ENT_DATAMEM[i] # ENT_DATAMEM[LastOf(Listing(v))]
    /\ Occurs(xmltag(ENT_DATAMEM[i], v), txt)

\* C24: ENT_VARDICT, as JUP_generateVarKeys builds it, maps each variant of
\* the registry to the last entity of the registry that lists it, and the
\* injectors produce no tag for a variant with the key of an earlier entity
\* that lists it.
C24_SharedVariantLaterEntity ==
  /\ "varkeys" \in done
       => /\ DOMAIN ENT_VARDICT = VarDictKeys(ENT_DATAMEM)
          /\ \A v \in DOMAIN ENT_VARDICT :
               ENT_VARDICT[v] = ENT_DATAMEM[LastOf(Listing(v))]
  /\ ("replace" \in done /\ first.err = "") => ~EarlierTagIn(first.val)
  /\ ("add" \in done /\ third.err = "") => ~EarlierTagIn(third.val)

\* Marcus is a variant of two entities, the map is built, and replace mode
\* and add mode have tagged an occurrence of it with the key of the second
C24_Witness ==
  /\ Cardinality(Listing(S_Marcus)) = 2
  /\ {"varkeys", "replace", "add"} \subseteq done
  /\ ENT_VARDICT[S_Marcus] = ENT_DATAMEM[2]
  /\ Occurs(xmltag(ENT_DATAMEM[2], S_Marcus), first.val)
  /\ Occurs(xmltag(ENT_DATAMEM[2], S_Marcus), third.val)


\* C28: for a document with one start of a text section and a registry
\* with no empty variant, replace mode and add mode come to an end and
\* return a document; they raise nothing, wherever the occurrences are.
C28_InjectionReturns ==
  (BodyStarts(xml) = 1 /\ <<>> \notin VarDictKeys(ENT_DATAMEM))
    => /\ "replace" \in done => first.err = ""
       /\ "add" \in done => third.err = ""


\* The tag that the registry gives an occurrence of the variant v
TagOf(v) == xmltag(VarDict(ENT_DATAMEM)[v], v)

\* Some tag of a variant stands in txt with a word character immediately
\* before it or immediately after it
TagInsideWord(txt) ==
  \E v \in VarDictKeys(ENT_DATAMEM) :
    \E p \in 0..(Len(txt) - 1) :
      /\ MatchAt(txt, TagOf(v), p)
      /\ \/ p > 0 /\ IsWord(txt[p])
         \/ /\ p + Len(TagOf(v)) < Len(txt)
            /\ IsWord(txt[p + Len(TagOf(v)) + 1])

\* C30: add mode, as replace mode, wraps an occurrence of a variant only
\* when the characters immediately before it and after it are no word
\* characters: no tag it produces touches a word character.
C30_AddRespectsWordBoundaries ==
  ~MarkerShaped(xml)
    => /\ ("replace" \in done /\ first.err = "")
            => ~TagInsideWord(first.val)
       /\ ("add" \in done /\ third.err = "")
            => ~TagInsideWord(third.val)


\* ------------------------------------------------------------------------
\* Discovery: the mentions of one document, with a file name or without
\* ------------------------------------------------------------------------

MaxMentions == 3

\* The nodes the document is made of
MentionNodes ==
  { Node(ENT_PLACE, None, None, None, S_York),
    Node(ENT_GEOG, None, None, None, S_York),
    Node(ENT_PERS, S_K, None, None, S_York),
    Node(ENT_PERS, S_K, S_r1, S_city, S_x),
    Node(ENT_PLACE, S_P, S_r2, None, S_York),
    Node(ENT_PERS, None, None, None, S_York) }

MentionDocs ==
  {Document(TRUE, 1, ns) :
     ns \in UNION {[1..n -> MentionNodes] : n \in 0..MaxMentions}}

\* The registries discovery is seeded with: none, and what discovery gives
\* for <persName key="K">K</persName> in the document f2
MentionSeeds == {<<>>, <<Entity(ENT_PERS, S_K, None, None, {S_K}, {S_f2})>>}

\* docs is the document, regs the seed, arg the file name
InitMentions ==
  /\ ENT_VARDICT = <<>> /\ datafile = NoDataFile
  /\ docs \in MentionDocs
  /\ regs \in MentionSeeds
  /\ arg \in {None, S_f1}
  /\ op = "init"
  /\ err = ""
  /\ done = {}
  /\ first = NotRun /\ second = NotRun /\ third = NotRun /\ trace = <<>>
  /\ ENT_DATAMEM = <<>> /\ csvfile = None /\ nops = 0 /\ prev = <<>>
  /\ xml = Unused

\* first = discover_entities(docs, merge_from=regs, filename=arg)
DiscoverMentions ==
  /\ "discover" \notin done
  /\ first' = discover_entities(docs, regs, arg)
  /\ trace' = PassTrace(docs, regs, arg)
  /\ op' = "discover"
  /\ err' = first'.err
  /\ done' = done \cup {"discover"}
  /\ UNCHANGED <<second, third>>
  /\ DiscoverUnchanged

\* ENT_DATAMEM = first; JUP_writeCSV(fname)
WriteDiscovered ==
  /\ "discover" \in done /\ first.err = ""
  /\ "write" \notin done
  /\ ENT_DATAMEM' = first.val
  /\ third' = JUP_writeCSV(first.val)
  /\ csvfile' = third'.val
  /\ op' = "write"
  /\ err' = third'.err
  /\ done' = done \cup {"write"}
  /\ UNCHANGED <<ENT_VARDICT, datafile, nops, prev, arg, xml, docs, regs,
                 first, second, trace>>

NextMentions == DiscoverMentions \/ WriteDiscovered

SpecMentions == InitMentions /\ [][NextMentions]_vars

\* The place of a kind in the order persons, places, geographic names
KindRank(kind) ==
  IF kind = ENT_PERS THEN 1 ELSE IF kind = ENT_PLACE THEN 2 ELSE 3

\* The keys of the nodes of the document that are of a kind in kinds, carry
\* a key and have the text t
KeysOfKeyed(kinds, t) ==
  {StripAttr(docs.nodes[i].key) : i \in
     {j \in 1..Len(docs.nodes) :
        /\ docs.nodes[j].tag \in kinds
        /\ Truthy(StripAttr(docs.nodes[j].key))
        /\ flatten_TEI_innertext(docs.nodes[j]) = t}}

\* The keys a pass knows from its seed
SeedKeys == {regs[i].key : i \in 1..Len(regs)}

\* The nodes are processed persons first, then places, then geographic
\* names, whatever their order in the document
KindsInOrder ==
  /\ Len(trace) = Len(docs.nodes)
  /\ \A i, j \in 1..Len(trace) :
       i < j => KindRank(trace[i].kind) <= KindRank(trace[j].kind)

\* An unkeyed person mention takes no key that only place or geographic
\* mentions of the document carry
PersonsBeforeOthers ==
  \A i \in 1..Len(trace) :
    (trace[i].kind = ENT_PERS /\ ~trace[i].keyed)
      => trace[i].key \in
           SeedKeys \cup KeysOfKeyed({ENT_PERS}, trace[i].variant)
             \cup {UnknownKey(trace[i].variant)}

\* C25, as stated: the kinds are processed in the fixed order, so an
\* unkeyed place or geographic mention with the text t takes the key of a
\* keyed person mention with the text t wherever that mention is in the
\* document, and an unkeyed person mention takes no key first introduced
\* by a place or geographic mention.
C25_AsStated ==
  "discover" \in done
    => /\ KindsInOrder
       /\ \A i \in 1..Len(trace) :
            (/\ trace[i].kind \in {ENT_PLACE, ENT_GEOG}
             /\ ~trace[i].keyed
             /\ KeysOfKeyed({ENT_PERS}, trace[i].variant) # {})
              => trace[i].key \in KeysOfKeyed({ENT_PERS}, trace[i].variant)
       /\ PersonsBeforeOthers

\* C25, amended: the same, for an unkeyed place or geographic mention
\* whose text is the text of no keyed place or geographic mention of the
\* document.
C25_KindsInFixedOrder ==
  "discover" \in done
    => /\ KindsInOrder
       /\ \A i \in 1..Len(trace) :
            (/\ trace[i].kind \in {ENT_PLACE, ENT_GEOG}
             /\ ~trace[i].keyed
             /\ KeysOfKeyed({ENT_PERS}, trace[i].variant) # {}
             /\ KeysOfKeyed({ENT_PLACE, ENT_GEOG}, trace[i].variant) = {})
              => trace[i].key \in KeysOfKeyed({ENT_PERS}, trace[i].variant)
       /\ PersonsBeforeOthers

\* The document holds an unkeyed place mention of York and then the person
\* K with the text York, and the place mention was filed under K
C25_Witness ==
  /\ "discover" \in done
  /\ regs = <<>>
  /\ docs.nodes = <<Node(ENT_PLACE, None, None, None, S_York),
                    Node(ENT_PERS, S_K, None, None, S_York)>>
  /\ trace[2].kind = ENT_PLACE /\ trace[2].key = S_K


\* The nodes of the document in the order discover_entities processes them
Processed ==
  SelectSeq(docs.nodes, LAMBDA n : n.tag = ENT_PERS)
    \o SelectSeq(docs.nodes, LAMBDA n : n.tag = ENT_PLACE)
    \o SelectSeq(docs.nodes, LAMBDA n : n.tag = ENT_GEOG)

\* The mentions filed under key that carry a ref, and those that carry a
\* type, by their place in the processing order
RefMentions(key) ==
  {i \in 1..Len(trace) :
     trace[i].key = key /\ Truthy(StripAttr(Processed[i].ref))}

TypeMentions(key) ==
  {i \in 1..Len(trace) :
     trace[i].key = key /\ Truthy(StripAttr(Processed[i].type))}

FirstOf(S) == CHOOSE i \in S : \A j \in S : i <= j

\* C26: an entity of the seed with no ref takes the ref of the first
\* mention of its key that carries one, and an entity of the seed with no
\* geotype takes the type of the first mention of its key that carries one.
C26_FilledOnceWhenAbsent ==
  ("discover" \in done /\ first.err = "")
    => \A s \in 1..Len(regs) : \E n \in 1..Len(first.val) :
         /\ first.val[n].key = regs[s].key
         /\ (~Truthy(regs[s].ref) /\ RefMentions(regs[s].key) # {})
              => first.val[n].ref
                   = StripAttr(Processed[FirstOf(RefMentions(regs[s].key))].ref)
         /\ (~Truthy(regs[s].geotype) /\ TypeMentions(regs[s].key) # {})
              => first.val[n].geotype
                   = StripAttr(
                       Processed[FirstOf(TypeMentions(regs[s].key))].type)


\* The files of the entity of the seed with the key k, none if there is
\* no such entity
SeedFiles(k) ==
  UNION {regs[s].files : s \in {t \in 1..Len(regs) : regs[t].key = k}}

\* C27: a discovery without a file name adds nothing to the files of any
\* entity, and JUP_writeCSV writes every registry that discovery gives.
C27_FilesHoldOnlyIdentifiers ==
  /\ ("discover" \in done /\ first.err = "" /\ arg = None)
       => \A n \in 1..Len(first.val) :
            first.val[n].files = SeedFiles(first.val[n].key)
  /\ "write" \in done => third.err = ""

=============================================================================
